---- MODULE Spec2Model ----
(***************************************************************************)
(* Model of the SSE producer of backend/app.py (execute_task_stream and    *)
(* its nested generator generate()) of the ash terminal backend.           *)
(*                                                                         *)
(* Texts are Python strings.  A text is a sequence of runs [ch, n]: n      *)
(* consecutive occurrences of the character ch, no run empty and no two    *)
(* neighbouring runs of the same character, so that two texts are equal    *)
(* exactly when the strings are.  Every character has a UTF-8 length and a *)
(* length inside a JSON string written by json.dumps(ensure_ascii=False).  *)
(***************************************************************************)
EXTENDS Integers, Sequences, FiniteSets, TLC

VARIABLES
    pc,                     \* position of generate(): "running" | "closed"
    ceiling,                \* MAX_CHUNK_SIZE as seen by _emit
    previous_response,      \* app.py:363
    assistant_content_map,  \* app.py:365
    tool_command_queue,     \* app.py:367
    last_tool_ctx,          \* app.py:270
    wire,                   \* frames produced by generate(), in order
    scenario,               \* the snapshots the agent runtime will yield
    pos,                    \* number of snapshots of the scenario yielded
    replays,                \* number of repeated yields of a snapshot
    observed,               \* last snapshot yielded by the runtime
    summarizer,             \* behaviour of assistant.llm.chat in this turn
    summary_calls,          \* calls of _generate_summary_text so far
    outcome,                \* how the turn ended
    prefix_ok,              \* every observation so far extended the previous
    ck,                     \* activation record of _emit_text_chunks
    tool,                   \* the call of ash_execute_command in progress
    suspended,              \* the generate() of a second request, suspended
    request                 \* the activation of execute_task_stream

vars == <<pc, ceiling, previous_response, assistant_content_map,
          tool_command_queue, last_tool_ctx, wire, scenario, pos, replays,
          observed, summarizer, summary_calls, outcome, prefix_ok, ck, tool,
          suspended, request>>

turn_vars == <<pc, previous_response, assistant_content_map,
               tool_command_queue, last_tool_ctx, wire, scenario, pos,
               replays, observed, summarizer, summary_calls, outcome,
               prefix_ok>>

(***************************************************************************)
(* Characters                                                              *)
(***************************************************************************)
\* U+0001, a control character: one UTF-8 byte, written \u0001 by json.dumps
CTRL == "^A"
\* U+1F600, outside the BMP: four UTF-8 bytes, one Python character
WIDE == "U+1F600"
\* U+D800, a lone surrogate: a Python str can hold it (json.loads accepts
\* the escape \ud800, and json.dumps(..., ensure_ascii=False) writes it as
\* it is), and str.encode('utf-8') raises UnicodeEncodeError on it.  A text
\* that holds it is never measured: see Encodable.
SURR == "U+D800"
NL == "\n"
QUOTE == "\""
BACKSLASH == "\\"

\* len(c.encode('utf-8'))
Utf8Char(c) == IF c = WIDE THEN 4 ELSE 1

\* length of c inside json.dumps(..., ensure_ascii=False)
JsonChar(c) ==
    IF c = CTRL THEN 6
    ELSE IF c \in {NL, QUOTE, BACKSLASH, "\t", "\r"} THEN 2
    ELSE IF c = WIDE THEN 4
    ELSE 1

(***************************************************************************)
(* Texts                                                                   *)
(***************************************************************************)
Empty == <<>>

\* the string of n characters c
T(c, n) == IF n <= 0 THEN <<>> ELSE <<[ch |-> c, n |-> n]>>

\* a + b
Cat(a, b) ==
    IF a = <<>> THEN b
    ELSE IF b = <<>> THEN a
    ELSE IF a[Len(a)].ch = b[1].ch
         THEN SubSeq(a, 1, Len(a) - 1)
              \o <<[ch |-> b[1].ch, n |-> a[Len(a)].n + b[1].n]>>
              \o Tail(b)
         ELSE a \o b

\* the number of characters ("len"), of UTF-8 bytes ("utf8") or of bytes
\* inside a JSON string ("json") of one run
RunSize(r, unit) ==
    r.n * (CASE unit = "utf8" -> Utf8Char(r.ch)
             [] unit = "json" -> JsonChar(r.ch)
             [] OTHER -> 1)

RECURSIVE Measure(_, _, _, _)
\* the size, in the unit, of the runs lo..hi of t
Measure(t, unit, lo, hi) ==
    IF lo > hi THEN 0
    ELSE IF lo = hi THEN RunSize(t[lo], unit)
    ELSE LET mid == (lo + hi) \div 2
         IN  Measure(t, unit, lo, mid) + Measure(t, unit, mid + 1, hi)

\* runs with equal neighbours merged
Norm(rs) ==
    LET starts == {k \in 1..Len(rs) : k = 1 \/ rs[k].ch # rs[k - 1].ch}
        m == Cardinality(starts)
        nth(j) == IF j > m THEN Len(rs) + 1
                  ELSE CHOOSE k \in starts :
                           Cardinality({x \in starts : x < k}) = j - 1
    IN  [j \in 1..m |->
            [ch |-> rs[nth(j)].ch,
             n |-> Measure(rs, "len", nth(j), nth(j + 1) - 1)]]

\* the string whose characters are the elements of cs
Str(cs) == Norm([k \in 1..Len(cs) |-> [ch |-> cs[k], n |-> 1]])

RECURSIVE CatAll(_)
\* ''.join(ts)
CatAll(ts) == IF ts = <<>> THEN <<>> ELSE Cat(Head(ts), CatAll(Tail(ts)))

\* len(t)
TLen(t) == Measure(t, "len", 1, Len(t))

\* len(t.encode('utf-8'))
Utf8Len(t) == Measure(t, "utf8", 1, Len(t))

\* length of t between the quotes of its JSON string
JsonLen(t) == Measure(t, "json", 1, Len(t))

\* the number of runs of t that lie within its first k characters
RunsWithin(t, k) ==
    Cardinality({j \in 1..Len(t) : Measure(t, "len", 1, j) <= k})

\* t[:k]
Take(t, k) ==
    LET m == RunsWithin(t, k)
        used == Measure(t, "len", 1, m)
    IN  IF k <= 0 THEN <<>>
        ELSE IF m = Len(t) THEN t
        ELSE IF k > used
             THEN Append(SubSeq(t, 1, m), [ch |-> t[m + 1].ch, n |-> k - used])
             ELSE SubSeq(t, 1, m)

\* t[k:]
Drop(t, k) ==
    LET m == RunsWithin(t, k)
        used == Measure(t, "len", 1, m)
    IN  IF k <= 0 THEN t
        ELSE IF m = Len(t) THEN <<>>
        ELSE IF k > used
             THEN <<[ch |-> t[m + 1].ch, n |-> t[m + 1].n - (k - used)]>>
                  \o SubSeq(t, m + 2, Len(t))
             ELSE SubSeq(t, m + 1, Len(t))

\* t[i:j]
Slice(t, i, j) == Take(Drop(t, i), j - i)

\* t.startswith(p)
StartsWith(t, p) == Take(t, TLen(p)) = p

RECURSIVE DecStr(_)
\* str(n) for n >= 0
DecStr(n) ==
    LET d == <<"0", "1", "2", "3", "4", "5", "6", "7", "8", "9">>
    IN  IF n < 10 THEN T(d[n + 1], 1)
        ELSE Cat(DecStr(n \div 10), T(d[(n % 10) + 1], 1))

\* number of characters of str(n), n >= 0
Digits(n) == TLen(DecStr(n))

(***************************************************************************)
(* Optional values (None or a string)                                      *)
(***************************************************************************)
None == [some |-> FALSE, v |-> <<>>]
Some(t) == [some |-> TRUE, v |-> t]
\* Python truthiness of an optional string
Truthy(o) == o.some /\ o.v # <<>>
\* a or b
OrElse(a, b) == IF Truthy(a) THEN a ELSE b

(***************************************************************************)
(* Serialisation: json.dumps with the default separators, then the SSE     *)
(* envelope "data: " ... "\n\n".  A field is <<key, size of its value>>.   *)
(***************************************************************************)
JStr(t) == 2 + JsonLen(t)
JOpt(o) == IF o.some THEN JStr(o.v) ELSE 4
JBool(b) == IF b THEN 4 ELSE 5
JInt(n) == IF n < 0 THEN 1 + Digits(0 - n) ELSE Digits(n)
JLit(s) == 2 + Len(s)

RECURSIVE FieldsSize(_)
FieldsSize(fs) ==
    IF fs = <<>> THEN 0
    ELSE Len(Head(fs)[1]) + 4 + Head(fs)[2]
         + (IF Len(fs) > 1 THEN 2 ELSE 0) + FieldsSize(Tail(fs))

\* len(f"data: {json.dumps(obj, ensure_ascii=False)}\n\n".encode("utf-8"))
_serialize_sse(fs) == 6 + 2 + FieldsSize(fs) + 2

(***************************************************************************)
(* String literals of the source                                           *)
(***************************************************************************)
\* 'Server response exceeded size limit. The command output was too large to process.'
ERR_TOO_LARGE ==
    Str(<<"S", "e", "r", "v", "e", "r", " ", "r", "e", "s", "p", "o", "n",
          "s", "e", " ", "e", "x", "c", "e", "e", "d", "e", "d", " ", "s",
          "i", "z", "e", " ", "l", "i", "m", "i", "t", ".", " ", "T", "h",
          "e", " ", "c", "o", "m", "m", "a", "n", "d", " ", "o", "u", "t",
          "p", "u", "t", " ", "w", "a", "s", " ", "t", "o", "o", " ", "l",
          "a", "r", "g", "e", " ", "t", "o", " ", "p", "r", "o", "c", "e",
          "s", "s", ".">>)

\* 'Assistant response too long. Please ask a more specific question.'
ERR_ASSISTANT_TOO_LONG ==
    Str(<<"A", "s", "s", "i", "s", "t", "a", "n", "t", " ", "r", "e", "s",
          "p", "o", "n", "s", "e", " ", "t", "o", "o", " ", "l", "o", "n",
          "g", ".", " ", "P", "l", "e", "a", "s", "e", " ", "a", "s", "k",
          " ", "a", " ", "m", "o", "r", "e", " ", "s", "p", "e", "c", "i",
          "f", "i", "c", " ", "q", "u", "e", "s", "t", "i", "o", "n", ".">>)

\* 'Large command output detected. Generating summary and retrying...'
MSG_RETRYING ==
    Str(<<"L", "a", "r", "g", "e", " ", "c", "o", "m", "m", "a", "n", "d",
          " ", "o", "u", "t", "p", "u", "t", " ", "d", "e", "t", "e", "c",
          "t", "e", "d", ".", " ", "G", "e", "n", "e", "r", "a", "t", "i",
          "n", "g", " ", "s", "u", "m", "m", "a", "r", "y", " ", "a", "n",
          "d", " ", "r", "e", "t", "r", "y", "i", "n", "g", ".", ".", ".">>)

\* 'Summary generated and stored. You can continue with your next command.'
MSG_STORED ==
    Str(<<"S", "u", "m", "m", "a", "r", "y", " ", "g", "e", "n", "e", "r",
          "a", "t", "e", "d", " ", "a", "n", "d", " ", "s", "t", "o", "r",
          "e", "d", ".", " ", "Y", "o", "u", " ", "c", "a", "n", " ", "c",
          "o", "n", "t", "i", "n", "u", "e", " ", "w", "i", "t", "h", " ",
          "y", "o", "u", "r", " ", "n", "e", "x", "t", " ", "c", "o", "m",
          "m", "a", "n", "d", ".">>)

\* 'Summary generated successfully.'
MSG_SUMMARY_OK ==
    Str(<<"S", "u", "m", "m", "a", "r", "y", " ", "g", "e", "n", "e", "r",
          "a", "t", "e", "d", " ", "s", "u", "c", "c", "e", "s", "s", "f",
          "u", "l", "l", "y", ".">>)

\* str(UnicodeEncodeError), up to the position
UNICODE_ERROR_1 ==
    Str(<<"'", "u", "t", "f", "-", "8", "'", " ", "c", "o", "d", "e", "c",
          " ", "c", "a", "n", "'", "t", " ", "e", "n", "c", "o", "d", "e",
          " ", "c", "h", "a", "r", "a", "c", "t", "e", "r", " ", "'",
          BACKSLASH, "u", "d", "8", "0", "0", "'", " ", "i", "n", " ", "p",
          "o", "s", "i", "t", "i", "o", "n", " ">>)

\* str(UnicodeEncodeError), after the position
UNICODE_ERROR_2 ==
    Str(<<":", " ", "s", "u", "r", "r", "o", "g", "a", "t", "e", "s", " ",
          "n", "o", "t", " ", "a", "l", "l", "o", "w", "e", "d">>)

\* 'Error processing tool result'
ERR_PROCESSING ==
    Str(<<"E", "r", "r", "o", "r", " ", "p", "r", "o", "c", "e", "s", "s",
          "i", "n", "g", " ", "t", "o", "o", "l", " ", "r", "e", "s", "u",
          "l", "t">>)

\* t.encode('utf-8') does not raise
Encodable(t) == \A k \in 1..Len(t) : t[k].ch # SURR

\* the position of the first character of t that cannot be encoded
SurrogateAt(t) ==
    LET k == CHOOSE j \in 1..Len(t) :
                 /\ t[j].ch = SURR
                 /\ \A i \in 1..(j - 1) : t[i].ch # SURR
    IN  Measure(t, "len", 1, k - 1)

\* str(e) for the UnicodeEncodeError of t.encode('utf-8'), t holding one
\* surrogate
EncodeError(t) ==
    CatAll(<<UNICODE_ERROR_1, DecStr(SurrogateAt(t)), UNICODE_ERROR_2>>)

\* 'An error occurred'
ERR_GENERIC ==
    Str(<<"A", "n", " ", "e", "r", "r", "o", "r", " ", "o", "c", "c", "u",
          "r", "r", "e", "d">>)

\* 'Command output is very large ('
MSG_VERY_LARGE_1 ==
    Str(<<"C", "o", "m", "m", "a", "n", "d", " ", "o", "u", "t", "p", "u",
          "t", " ", "i", "s", " ", "v", "e", "r", "y", " ", "l", "a", "r",
          "g", "e", " ", "(">>)

\* 'MB). Generating summary...'
MSG_VERY_LARGE_2 ==
    Str(<<"M", "B", ")", ".", " ", "G", "e", "n", "e", "r", "a", "t", "i",
          "n", "g", " ", "s", "u", "m", "m", "a", "r", "y", ".", ".", ".">>)

\* '[Auto-summarized from '
ANN_1 ==
    Str(<<"[", "A", "u", "t", "o", "-", "s", "u", "m", "m", "a", "r", "i",
          "z", "e", "d", " ", "f", "r", "o", "m", " ">>)

\* ' bytes]\n\n'
ANN_2 ==
    Str(<<" ", "b", "y", "t", "e", "s", "]", NL, NL>>)

\* '\n\n[Original output was '
ANN_3 ==
    Str(<<NL, NL, "[", "O", "r", "i", "g", "i", "n", "a", "l", " ", "o",
          "u", "t", "p", "u", "t", " ", "w", "a", "s", " ">>)

\* ' bytes. Use a more specific command to see full details.]'
ANN_4 ==
    Str(<<" ", "b", "y", "t", "e", "s", ".", " ", "U", "s", "e", " ", "a",
          " ", "m", "o", "r", "e", " ", "s", "p", "e", "c", "i", "f", "i",
          "c", " ", "c", "o", "m", "m", "a", "n", "d", " ", "t", "o", " ",
          "s", "e", "e", " ", "f", "u", "l", "l", " ", "d", "e", "t", "a",
          "i", "l", "s", ".", "]">>)

\* ' bytes ('
ANN_5 ==
    Str(<<" ", "b", "y", "t", "e", "s", " ", "(">>)

\* ' KB). Use a more specific command to see full details.]'
ANN_6 ==
    Str(<<" ", "K", "B", ")", ".", " ", "U", "s", "e", " ", "a", " ", "m",
          "o", "r", "e", " ", "s", "p", "e", "c", "i", "f", "i", "c", " ",
          "c", "o", "m", "m", "a", "n", "d", " ", "t", "o", " ", "s", "e",
          "e", " ", "f", "u", "l", "l", " ", "d", "e", "t", "a", "i", "l",
          "s", ".", "]">>)

\* 'unknown'
UNKNOWN ==
    Str(<<"u", "n", "k", "n", "o", "w", "n">>)

\* 'unknown_tool'
UNKNOWN_TOOL ==
    Str(<<"u", "n", "k", "n", "o", "w", "n", "_", "t", "o", "o", "l">>)

\* 'ash_ssh_execute'
ASH_SSH_EXECUTE ==
    Str(<<"a", "s", "h", "_", "s", "s", "h", "_", "e", "x", "e", "c", "u",
          "t", "e">>)

\* 'ash_telnet_execute'
ASH_TELNET_EXECUTE ==
    Str(<<"a", "s", "h", "_", "t", "e", "l", "n", "e", "t", "_", "e", "x",
          "e", "c", "u", "t", "e">>)

\* 'ash_execute_command'
ASH_EXECUTE_COMMAND ==
    Str(<<"a", "s", "h", "_", "e", "x", "e", "c", "u", "t", "e", "_", "c",
          "o", "m", "m", "a", "n", "d">>)

\* 'exec'
EXEC ==
    Str(<<"e", "x", "e", "c">>)

\* '{"command":"'
ARGS_PREFIX ==
    Str(<<"{", QUOTE, "c", "o", "m", "m", "a", "n", "d", QUOTE, ":", QUOTE>>)

\* '"}'
ARGS_SUFFIX ==
    Str(<<QUOTE, "}">>)

\* 'ls'
LS ==
    Str(<<"l", "s">>)

\* 'a.txt\nb.txt'
FILES ==
    Str(<<"a", ".", "t", "x", "t", NL, "b", ".", "t", "x", "t">>)

\* 'Found 2 files.'
FOUND ==
    Str(<<"F", "o", "u", "n", "d", " ", "2", " ", "f", "i", "l", "e", "s",
          ".">>)

\* '2026-01-01T00:00:00.000000'
TIMESTAMP ==
    Str(<<"2", "0", "2", "6", "-", "0", "1", "-", "0", "1", "T", "0", "0",
          ":", "0", "0", ":", "0", "0", ".", "0", "0", "0", "0", "0", "0">>)

(***************************************************************************)
(* Wire events.  A frame is a record with one field per JSON key the       *)
(* producer uses (index, total_size, originalSize = -1: key absent), its   *)
(* encoded size, and idx: the index of the transcript message it was made  *)
(* from (0: none), which is not part of the frame.                         *)
(***************************************************************************)
Ev == [type |-> "", name |-> <<>>, command |-> None, args |-> <<>>,
       text |-> <<>>, stderr |-> <<>>, stream |-> "", index |-> -1,
       success |-> TRUE, exitCode |-> 0, chunked |-> FALSE,
       total_size |-> -1, summary |-> FALSE, originalSize |-> -1,
       truncated |-> FALSE, size |-> 0, idx |-> 0]

\* {'type': 'content_chunk', 'content': content}
EvContentChunk(content, idx) ==
    [Ev EXCEPT !.type = "content_chunk", !.text = content, !.idx = idx,
        !.size = _serialize_sse(<<<<"type", JLit("content_chunk")>>,
                                  <<"content", JStr(content)>>>>)]

\* {'type': 'tool_call', 'name': ..., 'args': ..., 'command': ...}
EvToolCall(name, args, command, idx) ==
    [Ev EXCEPT !.type = "tool_call", !.name = name, !.args = args,
        !.command = command, !.idx = idx,
        !.size = _serialize_sse(<<<<"type", JLit("tool_call")>>,
                                  <<"name", JStr(name)>>,
                                  <<"args", JStr(args)>>,
                                  <<"command", JOpt(command)>>>>)]

\* structured_result
EvToolResult(name, command, success, exitCode, stdout, stderr, idx) ==
    [Ev EXCEPT !.type = "tool_result", !.name = name, !.command = command,
        !.success = success, !.exitCode = exitCode, !.text = stdout,
        !.stderr = stderr, !.idx = idx,
        !.size = _serialize_sse(<<<<"type", JLit("tool_result")>>,
                                  <<"name", JStr(name)>>,
                                  <<"command", JOpt(command)>>,
                                  <<"success", JBool(success)>>,
                                  <<"exitCode", JInt(exitCode)>>,
                                  <<"stdout", JStr(stdout)>>,
                                  <<"stderr", JStr(stderr)>>>>)]

\* metadata_result
EvToolResultMeta(name, command, success, exitCode, total_size, idx) ==
    [Ev EXCEPT !.type = "tool_result", !.name = name, !.command = command,
        !.success = success, !.exitCode = exitCode, !.chunked = TRUE,
        !.total_size = total_size, !.idx = idx,
        !.size = _serialize_sse(<<<<"type", JLit("tool_result")>>,
                                  <<"name", JStr(name)>>,
                                  <<"command", JOpt(command)>>,
                                  <<"success", JBool(success)>>,
                                  <<"exitCode", JInt(exitCode)>>,
                                  <<"stdout", JStr(Empty)>>,
                                  <<"stderr", JStr(Empty)>>,
                                  <<"chunked", JBool(TRUE)>>,
                                  <<"total_size", JInt(total_size)>>>>)]

\* {'type': 'tool_result_complete', 'name': tool_name}
EvToolResultComplete(name, idx) ==
    [Ev EXCEPT !.type = "tool_result_complete", !.name = name, !.idx = idx,
        !.size = _serialize_sse(<<<<"type", JLit("tool_result_complete")>>,
                                  <<"name", JStr(name)>>>>)]

\* the raw-content tool_result of the fallback path
EvRawResult(name, command, content, truncated, idx) ==
    [Ev EXCEPT !.type = "tool_result", !.name = name, !.command = command,
        !.text = content, !.truncated = truncated, !.idx = idx,
        !.size = _serialize_sse(
            <<<<"type", JLit("tool_result")>>, <<"name", JStr(name)>>,
              <<"command", JOpt(command)>>, <<"content", JStr(content)>>>>
            \o (IF truncated THEN <<<<"truncated", JBool(TRUE)>>>>
                ELSE <<>>))]

\* {'type': 'error', 'content': content}
EvError(content, idx) ==
    [Ev EXCEPT !.type = "error", !.text = content, !.idx = idx,
        !.size = _serialize_sse(<<<<"type", JLit("error")>>,
                                  <<"content", JStr(content)>>>>)]

\* {'type': 'message', 'content': content, 'role': 'system'}
EvMessage(content, idx) ==
    [Ev EXCEPT !.type = "message", !.text = content, !.idx = idx,
        !.size = _serialize_sse(<<<<"type", JLit("message")>>,
                                  <<"content", JStr(content)>>,
                                  <<"role", JLit("system")>>>>)]

\* {'type': 'done', 'timestamp': datetime.now().isoformat()}
EvDone ==
    [Ev EXCEPT !.type = "done",
        !.size = _serialize_sse(<<<<"type", JLit("done")>>,
                                  <<"timestamp", JStr(TIMESTAMP)>>>>)]

\* the mutation of EvSummarized that reports the summary as a success
EvSummarizedSuccess(name, command, stdout, originalSize) ==
    [Ev EXCEPT !.type = "tool_result", !.name = name,
        !.command = Some(command), !.success = TRUE, !.exitCode = 0,
        !.text = stdout, !.summary = TRUE, !.originalSize = originalSize,
        !.size = _serialize_sse(<<<<"type", JLit("tool_result")>>,
                                  <<"name", JStr(name)>>,
                                  <<"command", JStr(command)>>,
                                  <<"success", JBool(TRUE)>>,
                                  <<"exitCode", JInt(0)>>,
                                  <<"stdout", JStr(stdout)>>,
                                  <<"stderr", JStr(Empty)>>,
                                  <<"summary", JBool(TRUE)>>,
                                  <<"originalSize", JInt(originalSize)>>>>)]

\* summarized_result of the exception handler
EvSummarized(name, command, stdout, originalSize) ==
    [Ev EXCEPT !.type = "tool_result", !.name = name,
        !.command = Some(command), !.success = FALSE, !.exitCode = 0,
        !.text = stdout, !.summary = TRUE, !.originalSize = originalSize,
        !.size = _serialize_sse(<<<<"type", JLit("tool_result")>>,
                                  <<"name", JStr(name)>>,
                                  <<"command", JStr(command)>>,
                                  <<"success", JBool(FALSE)>>,
                                  <<"exitCode", JInt(0)>>,
                                  <<"stdout", JStr(stdout)>>,
                                  <<"stderr", JStr(Empty)>>,
                                  <<"summary", JBool(TRUE)>>,
                                  <<"originalSize", JInt(originalSize)>>>>)]

\* "data: [DONE]\n\n"
SENTINEL == [Ev EXCEPT !.type = "[DONE]", !.size = 14]

(***************************************************************************)
(* _emit                                                                   *)
(***************************************************************************)
MAX_CHUNK_SIZE == 32 * 1024

\* the mutation of Fits that also accepts a frame of exactly the ceiling
FitsAtCeiling(ev) == ev.size <= ceiling

\* size < MAX_CHUNK_SIZE: the frame is written and _emit returns True
Fits(ev) == ev.size < ceiling

\* the frames written so far after _emit(ev)
_emit(out, ev) == IF Fits(ev) THEN Append(out, ev) ELSE out

(***************************************************************************)
(* _emit_text_chunks.  One activation is the record                        *)
(*   [base_ev, base_fields, text, text_key, index_key, initial,            *)
(*    chunk_size, i, chunk_index, out, ret]                                *)
(* with out the frames it has written and ret "running", "true" or "false".*)
(***************************************************************************)
MIN_CHUNK_SIZE == 5000

\* the mutation of NextCursor that skips a character after every chunk
NextCursorSkipping(i, chunk, chunk_size) == i + TLen(chunk) + 1

\* i += len(chunk)
NextCursor(i, chunk, chunk_size) == i + TLen(chunk)

\* the mutation of Shrink that leaves the chunk size as it is
ShrinkNone(chunk_size) == chunk_size

\* the mutation of Shrink that halves the chunk size
ShrinkByHalf(chunk_size) == chunk_size \div 2

\* int(chunk_size * 0.7); equal to floor(7 * chunk_size / 10) on every size
\* reachable from the initial sizes 15 * 1024 and 30 * 1024
Shrink(chunk_size) == (chunk_size * 7) \div 10

NoChunker ==
    [base_ev |-> Ev, base_fields |-> <<>>, text |-> <<>>, text_key |-> "",
     index_key |-> "", initial |-> 0, chunk_size |-> 0, i |-> 0,
     chunk_index |-> 0, out |-> <<>>, ret |-> "idle"]

\* the state of _emit_text_chunks on entry
ChunkStart(base_ev, base_fields, text, text_key, index_key, initial) ==
    [base_ev |-> base_ev, base_fields |-> base_fields, text |-> text,
     text_key |-> text_key, index_key |-> index_key, initial |-> initial,
     chunk_size |-> initial, i |-> 0, chunk_index |-> 0, out |-> <<>>,
     ret |-> "running"]

\* the mutation of ChunkPayload that numbers every chunk 0
ChunkPayloadUnnumbered(c, chunk) ==
    [c.base_ev EXCEPT
        !.text = chunk, !.index = 0,
        !.size = _serialize_sse(c.base_fields
                                \o <<<<c.text_key, JStr(chunk)>>,
                                     <<c.index_key, JInt(0)>>>>)]

\* payload = dict(base); payload[text_key] = chunk; payload[index_key] = ...
ChunkPayload(c, chunk) ==
    [c.base_ev EXCEPT
        !.text = chunk, !.index = c.chunk_index,
        !.size = _serialize_sse(c.base_fields
                                \o <<<<c.text_key, JStr(chunk)>>,
                                     <<c.index_key, JInt(c.chunk_index)>>>>)]

\* one iteration of the while loop (or its exit)
\* the rest of an iteration, after `sent = yield from _emit(payload)`
ChunkAttempt(c, chunk, payload) ==
    IF Fits(payload)
    THEN [c EXCEPT !.out = Append(@, payload),
                   !.i = NextCursor(@, chunk, c.chunk_size),
                   !.chunk_index = @ + 1]
    ELSE IF Shrink(c.chunk_size) < MIN_CHUNK_SIZE
         THEN [c EXCEPT !.chunk_size = Shrink(@),
                        !.out = _emit(@, EvError(ERR_TOO_LARGE,
                                                 c.base_ev.idx)),
                        !.ret = "false"]
         ELSE [c EXCEPT !.chunk_size = Shrink(@)]

\* payload[text_key] = chunk, then the attempt to emit it
ChunkTry(c, chunk) == ChunkAttempt(c, chunk, ChunkPayload(c, chunk))

\* one iteration of the while loop (or its exit)
ChunkStep(c) ==
    IF c.i < TLen(c.text)
    THEN ChunkTry(c, Slice(c.text, c.i, c.i + c.chunk_size))
    ELSE [c EXCEPT !.ret = "true"]

\* the activation c after j more chunks of the current size were accepted
ChunkAhead(c, j) ==
    [c EXCEPT !.i = @ + j * c.chunk_size, !.chunk_index = @ + j]

\* the payload of the iteration that starts in the state d
PayloadAt(d) == ChunkPayload(d, Slice(d.text, d.i, d.i + d.chunk_size))

\* the payload of the iteration that follows j accepted ones
PayloadAhead(c, j) == PayloadAt(ChunkAhead(c, j))

\* the number of iterations from c on that are accepted in a row
AcceptedRun(c) ==
    LET n == (TLen(c.text) - c.i + c.chunk_size - 1) \div c.chunk_size
        First(rejected) ==
            IF rejected = {} THEN n
            ELSE CHOOSE j \in rejected : \A k \in rejected : j <= k
    IN  First({j \in 0..(n - 1) : ~Fits(PayloadAhead(c, j))})

\* the activation after m accepted iterations, the last one starting in last
ChunkRunTo(c, m, last) ==
    [c EXCEPT
       !.out = @ \o [j \in 1..m |-> PayloadAhead(c, j - 1)],
       !.i = NextCursor(last.i, Slice(c.text, last.i, last.i + c.chunk_size),
                        c.chunk_size),
       !.chunk_index = @ + m]

\* m iterations of the loop at once, all of them accepting
ChunkRun(c, m) == ChunkRunTo(c, m, ChunkAhead(c, m - 1))

RECURSIVE RunChunks(_)
\* the loop continued with m accepted iterations, or with one iteration
ChunkGo(c, m) ==
    IF m > 0 THEN RunChunks(ChunkRun(c, m)) ELSE RunChunks(ChunkStep(c))

\* the loop run to its end: ChunkStep iterated, accepted iterations in runs
RunChunks(c) ==
    IF c.ret # "running" THEN c
    ELSE ChunkGo(c, IF c.i < TLen(c.text) THEN AcceptedRun(c) ELSE 0)

\* the finished activation of _emit_text_chunks(base=..., text=..., ...)
_emit_text_chunks(base_ev, base_fields, text, text_key, index_key, initial) ==
    RunChunks(ChunkStart(base_ev, base_fields, text, text_key, index_key,
                         initial))

\* base={'type': 'content_chunk'}, text_key='content',
\* index_key='chunk_index', initial_chunk_size=15 * 1024
ContentChunks(text, idx) ==
    _emit_text_chunks([Ev EXCEPT !.type = "content_chunk", !.idx = idx],
                      <<<<"type", JLit("content_chunk")>>>>,
                      text, "content", "chunk_index", 15 * 1024)

\* _emit_tool_stream_chunks(tool_name, stream, text)
_emit_tool_stream_chunks(tool_name, stream, text, idx) ==
    IF text = <<>>
    THEN [NoChunker EXCEPT !.ret = "true"]
    ELSE _emit_text_chunks(
             [Ev EXCEPT !.type = "tool_result_chunk", !.name = tool_name,
                        !.stream = stream, !.idx = idx],
             <<<<"type", JLit("tool_result_chunk")>>,
               <<"name", JStr(tool_name)>>, <<"stream", JLit(stream)>>>>,
             text, "chunk", "index", 30 * 1024)

(***************************************************************************)
(* Transcript messages, as the agent runtime yields them.                  *)
(*   role      "assistant" | "function" | "tool" | "user" | ...            *)
(*   content   assistant: the text (None allowed)                          *)
(*   fc        function_call: None, or Some(arguments) with fc_name        *)
(*   name      the tool name of a tool/function message                    *)
(*   result    tool/function: the content.  kind "json" is the text of a   *)
(*             JSON object, kept as the object json.loads returns (the     *)
(*             code reads nothing else of it); kind "malformed" is a text  *)
(*             that starts with "{" and is not JSON; kind "text" is any    *)
(*             text that does not start with "{".                          *)
(***************************************************************************)
NoResult ==
    [kind |-> "none", raw |-> <<>>, output |-> <<>>, error |-> <<>>,
     success |-> TRUE, exitCode |-> 0, command |-> None]

Msg == [role |-> "user", content |-> None, fc |-> None, fc_name |-> <<>>,
        name |-> None, result |-> NoResult]

AssistantMsg(content) ==
    [Msg EXCEPT !.role = "assistant", !.content = Some(content)]

CallMsg(content, tool_name, arguments) ==
    [Msg EXCEPT !.role = "assistant", !.content = Some(content),
                !.fc = Some(arguments), !.fc_name = tool_name]

JsonResultMsg(role, tool_name, success, output, error, exitCode, command) ==
    [Msg EXCEPT !.role = role, !.name = Some(tool_name),
                !.result = [kind |-> "json", raw |-> <<>>,
                            output |-> output, error |-> error,
                            success |-> success, exitCode |-> exitCode,
                            command |-> command]]

TextResultMsg(role, tool_name, kind, raw) ==
    [Msg EXCEPT !.role = role, !.name = Some(tool_name),
                !.result = [NoResult EXCEPT !.kind = kind, !.raw = raw]]

\* '{"command":"<command>"}'
CommandArgs(command) == CatAll(<<ARGS_PREFIX, command, ARGS_SUFFIX>>)

(***************************************************************************)
(* json5.loads(tool_args) followed by args.get('command'), for the         *)
(* argument texts '{}' and '{"command":"<c>"}' with c free of quotes and   *)
(* backslashes; every other text is a parse error.                         *)
(***************************************************************************)
HasChar(t, cs) == \E k \in 1..Len(t) : t[k].ch \in cs

\* not tool_args.strip()
IsBlank(t) == \A k \in 1..Len(t) : t[k].ch \in {" ", NL, "\t", "\r"}

ParseArgs(tool_args) ==
    LET n == TLen(tool_args)
        inner == Slice(tool_args, TLen(ARGS_PREFIX), n - TLen(ARGS_SUFFIX))
    IN  IF tool_args = Str(<<"{", "}">>)
        THEN [ok |-> TRUE, command |-> None]
        ELSE IF /\ n >= TLen(ARGS_PREFIX) + TLen(ARGS_SUFFIX)
                /\ StartsWith(tool_args, ARGS_PREFIX)
                /\ Drop(tool_args, n - TLen(ARGS_SUFFIX)) = ARGS_SUFFIX
                /\ ~HasChar(inner, {QUOTE, BACKSLASH, NL, CTRL})
             THEN [ok |-> TRUE, command |-> Some(inner)]
             ELSE [ok |-> FALSE, command |-> None]

\* the mutation of CommandTools that knows the registered execution tool
CommandToolsAll == {ASH_SSH_EXECUTE, ASH_TELNET_EXECUTE, ASH_EXECUTE_COMMAND}

\* the tool names whose arguments are searched for a command
CommandTools == {ASH_SSH_EXECUTE, ASH_TELNET_EXECUTE}

\* command extraction of a tool-call announcement
ExtractCommand(tool_name, tool_args) ==
    IF tool_name \in CommandTools
    THEN IF tool_args # <<>> /\ ~IsBlank(tool_args)
         THEN IF ParseArgs(tool_args).ok
              THEN OrElse(ParseArgs(tool_args).command, Some(tool_args))
              ELSE Some(tool_args)
         ELSE None
    ELSE None

(***************************************************************************)
(* The state one pass over a snapshot threads through the messages:        *)
(*   map, queue, ctx   assistant_content_map, tool_command_queue,          *)
(*                     last_tool_ctx                                       *)
(*   previous          previous_response, as the pass before left it       *)
(*   trace             the frames yielded, with a CALL entry where         *)
(*                     _generate_summary_text is called                    *)
(*   returned          generate() executed `return`                        *)
(*   raised            the message of the exception that left the for      *)
(*                     loop, if one did                                    *)
(***************************************************************************)
CALL == [Ev EXCEPT !.type = "_generate_summary_text"]
IsFrame(ev) == ev.type # CALL.type
Frames(trace) == SelectSeq(trace, IsFrame)
Calls(trace) == Len(trace) - Len(Frames(trace))

NoCtx == [set |-> FALSE, name |-> <<>>, command |-> None,
          total_raw_size |-> 0, stdout_head |-> <<>>, stderr_head |-> <<>>]

\* the mutation of EmitTo that puts the frame before those of the pass
EmitToFront(st, ev) == [st EXCEPT !.trace = _emit(<<>>, ev) \o @]

\* yield from _emit(ev), appended to the trace of st
EmitTo(st, ev) == [st EXCEPT !.trace = _emit(@, ev)]
\* yield f"data: {json.dumps(...)}\n\n", without the size check
YieldTo(st, ev) == [st EXCEPT !.trace = Append(@, ev)]

MapGet(map, idx) == IF idx \in DOMAIN map THEN map[idx] ELSE <<>>
MapSet(map, idx, t) ==
    [k \in DOMAIN map \cup {idx} |-> IF k = idx THEN t ELSE map[k]]

(***************************************************************************)
(* _generate_summary_text, with assistant.llm.chat as this turn's          *)
(* summarizer behaves: "text" and "bigtext" stream a reply, "empty"        *)
(* streams no assistant content, "raise" raises.  The result is            *)
(* [raised, text]; the routine has no handler of its own.                  *)
(***************************************************************************)
\* the reply of the language model: 200 characters
SUMMARY_REPLY == T("s", 200)
\* a reply that alone is larger than a frame
BIG_SUMMARY_REPLY == T("s", 40000)

_generate_summary_text(command, stdout_head, stderr_head, total_size) ==
    CASE summarizer = "raise" -> [raised |-> TRUE, text |-> <<>>]
      [] summarizer = "empty" -> [raised |-> FALSE, text |-> <<>>]
      [] summarizer = "bigtext" ->
            [raised |-> FALSE, text |-> BIG_SUMMARY_REPLY]
      [] OTHER -> [raised |-> FALSE, text |-> SUMMARY_REPLY]

(***************************************************************************)
(* Assistant content: the differ of app.py:384-437                         *)
(***************************************************************************)
MAX_ASSISTANT_CONTENT_SIZE == 5 * 1024 * 1024

\* the mutation of ContentToSend that sends the observed content whole
ContentToSendWhole(previous_content, content_str) == content_str

\* the mutation of ContentToSend that cuts the length of the recorded content
\* off whatever is observed
ContentToSendSuffix(previous_content, content_str) ==
    Drop(content_str, TLen(previous_content))

\* content_to_send, from the content recorded for the index and the content
\* observed now
ContentToSend(previous_content, content_str) ==
    IF previous_content = <<>>
    THEN content_str
    ELSE IF content_str # previous_content
         THEN IF StartsWith(content_str, previous_content)
              THEN Drop(content_str, TLen(previous_content))
              ELSE content_str
         ELSE <<>>

\* the mutation of ChunkedContent that records the content whatever the
\* chunker returned
ChunkedContentAlways(st, idx, content_str, c) ==
    [st EXCEPT !.trace = @ \o c.out, !.map = MapSet(@, idx, content_str)]

\* the delta was written by the chunker activation c
ChunkedContent(st, idx, content_str, c) ==
    [st EXCEPT !.trace = @ \o c.out,
               !.map = IF c.ret = "true" THEN MapSet(@, idx, content_str)
                       ELSE @]

\* the mutation of EmitContent that goes on with the pass after the error
\* event of the 5 MiB cap
EmitContentGoingOn(st, idx, content_str, content_to_send, single) ==
    IF Utf8Len(content_str) > MAX_ASSISTANT_CONTENT_SIZE
    THEN EmitTo(st, EvError(ERR_ASSISTANT_TOO_LONG, idx))
    ELSE IF Fits(single)
    THEN [EmitTo(st, single) EXCEPT !.map = MapSet(@, idx, content_str)]
    ELSE ChunkedContent(st, idx, content_str,
                        ContentChunks(content_to_send, idx))

\* the emission of a non-empty delta: one frame when it fits, chunks otherwise
EmitContent(st, idx, content_str, content_to_send, single) ==
    IF Utf8Len(content_str) > MAX_ASSISTANT_CONTENT_SIZE
    THEN [EmitTo(st, EvError(ERR_ASSISTANT_TOO_LONG, idx))
             EXCEPT !.returned = TRUE]
    ELSE IF Fits(single)
    THEN [EmitTo(st, single) EXCEPT !.map = MapSet(@, idx, content_str)]
    ELSE ChunkedContent(st, idx, content_str,
                        ContentChunks(content_to_send, idx))

\* the delta of the observed content against the recorded one, then its emission
DiffContent(st, idx, content_str, content_to_send) ==
    IF content_str = <<>> \/ content_to_send = <<>>
    THEN st
    ELSE EmitContent(st, idx, content_str, content_to_send,
                     EvContentChunk(content_to_send, idx))

\* previous_content = assistant_content_map.get(idx, '')
DiffAgainstMap(st, idx, content_str) ==
    DiffContent(st, idx, content_str,
                ContentToSend(MapGet(st.map, idx), content_str))

ProcAssistantContent(st, idx, message) ==
    DiffAgainstMap(st, idx, IF message.content.some THEN message.content.v
                            ELSE <<>>)

(***************************************************************************)
(* Tool-call announcement: app.py:439-477                                  *)
(***************************************************************************)
\* the mutation of IsNewMessage that takes every message for new
IsNewMessageAlways(idx, previous) == TRUE

\* the mutation of IsNewMessage that takes the last message of the previous
\* snapshot for new as well
IsNewMessageLast(idx, previous) == idx >= Len(previous)

\* idx >= len(previous_response), for the 1-based index idx
IsNewMessage(idx, previous) == idx > Len(previous)

\* the announcement of a call whose command was extracted
AnnounceCall(st, idx, tool_name, tool_args, command) ==
    [YieldTo(st, EvToolCall(tool_name, tool_args, command, idx))
        EXCEPT !.queue = IF Truthy(command) THEN Append(@, command.v) ELSE @]

\* not reached when the content step executed `return`
ProcToolCall(st, idx, message) ==
    IF /\ ~st.returned
       /\ ~st.raised.some
       /\ IsNewMessage(idx, st.previous)
       /\ message.fc.some
    THEN AnnounceCall(st, idx, message.fc_name, message.fc.v,
                      ExtractCommand(message.fc_name, message.fc.v))
    ELSE st

(***************************************************************************)
(* Tool result: app.py:481-641                                             *)
(***************************************************************************)
AUTO_SUMMARY_THRESHOLD == 5 * 1024 * 1024

\* f'Command output is very large ({total_raw_size // 1024 // 1024}MB). ...'
VeryLargeNotice(total_raw_size) ==
    CatAll(<<MSG_VERY_LARGE_1, DecStr((total_raw_size \div 1024) \div 1024),
             MSG_VERY_LARGE_2>>)

\* the stdout that replaces the output of an auto-summarized result
AutoSummarized(total_raw_size, summary_text) ==
    CatAll(<<ANN_1, DecStr(total_raw_size), ANN_2, summary_text, ANN_3,
             DecStr(total_raw_size), ANN_4>>)

\* 500 + int(total_raw_size * 0.2) + total_raw_size
EstimatedTotalSize(total_raw_size) ==
    total_raw_size + 500 + ((total_raw_size * 2) \div 10)

\* the fallback of the handler of JSONDecodeError and AttributeError
FallbackResult(st, idx, tool_name, command, tool_content) ==
    LET whole == EvRawResult(tool_name, command, tool_content, FALSE, idx)
        max_content_size == ceiling - 500
        truncated_content ==
            IF TLen(tool_content) > max_content_size
            THEN Take(tool_content, max_content_size) ELSE tool_content
    IN  IF Fits(whole)
        THEN EmitTo(st, whole)
        ELSE EmitTo(st, EvRawResult(tool_name, command, truncated_content,
                                    TRUE, idx))

\* chunked delivery: metadata, stdout chunks, stderr chunks, completion
\* the end of chunked delivery: completion only when both chunkers succeeded
CompleteDelivery(st, idx, tool_name, ok_stdout, ok_stderr) ==
    IF ok_stdout.ret = "true" /\ ok_stderr.ret = "true"
    THEN EmitTo([st EXCEPT !.trace = @ \o ok_stdout.out \o ok_stderr.out],
                EvToolResultComplete(tool_name, idx))
    ELSE [st EXCEPT !.trace = @ \o ok_stdout.out \o ok_stderr.out]

\* chunked delivery: metadata, stdout chunks, stderr chunks, completion
ChunkedDelivery(st, idx, tool_name, final_command, success, exitCode, stdout, stderr, total_raw_size) ==
    CompleteDelivery(
        EmitTo(st, EvToolResultMeta(tool_name, final_command, success,
                                    exitCode, total_raw_size, idx)),
        idx, tool_name,
        _emit_tool_stream_chunks(tool_name, "stdout", stdout, idx),
        _emit_tool_stream_chunks(tool_name, "stderr", stderr, idx))

\* the mutation of ForceChunk that does without the estimate
ForceChunkOnReject(total_raw_size, structured_result) ==
    ~Fits(structured_result)

\* force_chunk after the size estimate and the attempt to emit the result whole
ForceChunk(total_raw_size, structured_result) ==
    \/ EstimatedTotalSize(total_raw_size) >= ceiling
    \/ total_raw_size >= ceiling - 1000
    \/ ~Fits(structured_result)

\* the result whole, or chunked delivery
DeliverOrChunk(st, idx, tool_name, final_command, success, exitCode, stdout, stderr, total_raw_size, structured_result) ==
    IF ForceChunk(total_raw_size, structured_result)
    THEN ChunkedDelivery(st, idx, tool_name, final_command, success,
                         exitCode, stdout, stderr, total_raw_size)
    ELSE EmitTo(st, structured_result)

\* the force_chunk decision and the emission that follows it
DeliverResult(st, idx, tool_name, final_command, success, exitCode, stdout, stderr, total_raw_size) ==
    DeliverOrChunk(st, idx, tool_name, final_command, success, exitCode,
                   stdout, stderr, total_raw_size,
                   EvToolResult(tool_name, final_command, success, exitCode,
                                stdout, stderr, idx))

\* the try block of the tool-result step for a content that parses or that
\* does not start with "{"
\* stdout = summary; total_raw_size is measured again
DeliverSummary(st, idx, tool_name, final_command, success, exitCode, stdout, stderr) ==
    DeliverResult(st, idx, tool_name, final_command, success, exitCode,
                  stdout, stderr, Utf8Len(stdout) + Utf8Len(stderr))

\* the mutation of SummarizeResult that lets a failed summary end the turn
SummarizeResultOrFail(st, idx, tool_name, final_command, success, exitCode, stdout, stderr, total_raw_size, reply) ==
    IF ~reply.raised /\ reply.text # <<>>
    THEN DeliverSummary(
             YieldTo(YieldTo(YieldTo(st,
                 EvMessage(VeryLargeNotice(total_raw_size), idx)), CALL),
                 EvMessage(MSG_SUMMARY_OK, idx)),
             idx, tool_name, final_command, success, exitCode,
             AutoSummarized(total_raw_size, reply.text), stderr)
    ELSE [YieldTo(YieldTo(st,
              EvMessage(VeryLargeNotice(total_raw_size), idx)), CALL)
             EXCEPT !.raised = Some(ERR_GENERIC)]

\* the auto-summary of a result above AUTO_SUMMARY_THRESHOLD, then delivery
SummarizeResult(st, idx, tool_name, final_command, success, exitCode, stdout, stderr, total_raw_size, reply) ==
    IF ~reply.raised /\ reply.text # <<>>
    THEN DeliverSummary(
             YieldTo(YieldTo(YieldTo(st,
                 EvMessage(VeryLargeNotice(total_raw_size), idx)), CALL),
                 EvMessage(MSG_SUMMARY_OK, idx)),
             idx, tool_name, final_command, success, exitCode,
             AutoSummarized(total_raw_size, reply.text), stderr)
    ELSE DeliverResult(
             YieldTo(YieldTo(st,
                 EvMessage(VeryLargeNotice(total_raw_size), idx)), CALL),
             idx, tool_name, final_command, success, exitCode, stdout,
             stderr, total_raw_size)

\* should_auto_summarize
SizeResult(st, idx, tool_name, final_command, success, exitCode, stdout, stderr, total_raw_size) ==
    IF total_raw_size > AUTO_SUMMARY_THRESHOLD
    THEN SummarizeResult(
             st, idx, tool_name, final_command, success, exitCode, stdout,
             stderr, total_raw_size,
             _generate_summary_text(OrElse(final_command, Some(UNKNOWN)).v,
                                    Take(stdout, 5000), Take(stderr, 1000),
                                    total_raw_size))
    ELSE DeliverResult(st, idx, tool_name, final_command, success, exitCode,
                       stdout, stderr, total_raw_size)

\* last_tool_ctx is recorded, then the result is summarized or delivered
RecordResult(st, idx, tool_name, final_command, success, exitCode, stdout, stderr, total_raw_size) ==
    SizeResult([st EXCEPT !.ctx =
                   [set |-> TRUE, name |-> tool_name,
                    command |-> final_command,
                    total_raw_size |-> total_raw_size,
                    stdout_head |-> Take(stdout, 10000),
                    stderr_head |-> Take(stderr, 2000)]],
               idx, tool_name, final_command, success, exitCode, stdout,
               stderr, total_raw_size)

\* the handler `except Exception as e` of the tool-result step
StepError(st, idx, error_content) ==
    LET max_error_content == ceiling - 200
        cut == IF Utf8Len(error_content) > max_error_content
               THEN Take(error_content, max_error_content)
               ELSE error_content
    IN  IF Fits(EvError(cut, idx))
        THEN EmitTo(st, EvError(cut, idx))
        ELSE EmitTo(st, EvError(ERR_PROCESSING, idx))

\* f'Error processing tool result: {str(e)}'
StepFault(st, idx, error_msg) ==
    StepError(st, idx, CatAll(<<ERR_PROCESSING, Str(<<":", " ">>), error_msg>>))

\* total_raw_size = len(stdout.encode('utf-8')) + len(stderr.encode('utf-8'))
\* which raises UnicodeEncodeError, inside the try block, on a surrogate
ParsedResult(st, idx, tool_name, final_command, success, exitCode, stdout, stderr) ==
    IF ~Encodable(stdout) THEN StepFault(st, idx, EncodeError(stdout))
    ELSE IF ~Encodable(stderr) THEN StepFault(st, idx, EncodeError(stderr))
    ELSE RecordResult(st, idx, tool_name, final_command, success, exitCode,
                      stdout, stderr, Utf8Len(stdout) + Utf8Len(stderr))

\* the mutation of StructuredResult that prefers the command of the queue
StructuredResultQueueFirst(st, idx, tool_name, command, r) ==
    ParsedResult(st, idx, tool_name,
                 OrElse(command, IF r.kind = "json" THEN r.command ELSE None),
                 IF r.kind = "json" THEN r.success ELSE TRUE,
                 IF r.kind = "json" THEN r.exitCode ELSE 0,
                 IF r.kind = "json" THEN r.output ELSE <<>>,
                 IF r.kind = "json" THEN r.error ELSE <<>>)

\* the try block of the tool-result step for a content that parses or that
\* does not start with "{"
StructuredResult(st, idx, tool_name, command, r) ==
    ParsedResult(st, idx, tool_name,
                 OrElse(IF r.kind = "json" THEN r.command ELSE None, command),
                 IF r.kind = "json" THEN r.success ELSE TRUE,
                 IF r.kind = "json" THEN r.exitCode ELSE 0,
                 IF r.kind = "json" THEN r.output ELSE <<>>,
                 IF r.kind = "json" THEN r.error ELSE <<>>)

\* the command popped from the queue, then the parse of the content
CorrelateResult(st, idx, tool_name, command, result) ==
    IF result.kind = "malformed"
    THEN FallbackResult(st, idx, tool_name, command, result.raw)
    ELSE StructuredResult(st, idx, tool_name, command, result)

\* the content of a tool message as the string generate() reads.  A json
\* result stands for JSON text in ASCII (a surrogate is written \ud800 in
\* it); a content that is not a JSON object is its raw text.
ToolContent(result) == IF result.kind = "json" THEN <<>> ELSE result.raw

\* tool_content_size = len(tool_content.encode('utf-8')), before the queue is
\* read and outside every try block of the step
ProcToolResult(st, idx, message) ==
    CorrelateResult([st EXCEPT !.queue = IF @ # <<>> THEN Tail(@) ELSE @],
                    idx,
                    IF message.name.some THEN message.name.v
                    ELSE UNKNOWN_TOOL,
                    IF st.queue # <<>> THEN Some(Head(st.queue)) ELSE None,
                    message.result)

\* tool_content_size = len(tool_content.encode('utf-8')), before the queue is
\* read and outside every try block of the step
MeasuredResult(st, idx, message, tool_content) ==
    IF Encodable(tool_content)
    THEN ProcToolResult(st, idx, message)
    ELSE [st EXCEPT !.raised = Some(EncodeError(tool_content))]

(***************************************************************************)
(* One pass of the for loop over response_chunk: app.py:379-641            *)
(***************************************************************************)
ProcMessage(st, idx, message) ==
    IF message.role = "assistant"
    THEN ProcToolCall(ProcAssistantContent(st, idx, message), idx, message)
    ELSE IF /\ message.role \in {"tool", "function"}
            /\ IsNewMessage(idx, st.previous)
         THEN MeasuredResult(st, idx, message, ToolContent(message.result))
         ELSE st

RECURSIVE ProcMessages(_, _, _)
ProcMessages(st, response_chunk, idx) ==
    IF idx > Len(response_chunk) \/ st.returned \/ st.raised.some
    THEN st
    ELSE ProcMessages(ProcMessage(st, idx, response_chunk[idx]),
                      response_chunk, idx + 1)

\* the state at the head of the for loop: the cells of generate() as the
\* passes before left them, nothing yielded yet
PassStart(map, queue, ctx, previous) ==
    [map |-> map, queue |-> queue, ctx |-> ctx, previous |-> previous,
     trace |-> <<>>, returned |-> FALSE, raised |-> None]

\* the pass over response_chunk from the turn's current state
ProcSnapshot(response_chunk) ==
    ProcMessages(PassStart(assistant_content_map, tool_command_queue,
                           last_tool_ctx, previous_response),
                 response_chunk, 1)

(***************************************************************************)
(* The except handler of generate(): app.py:649-722.  An exception is its  *)
(* message str(e).                                                         *)
(***************************************************************************)
LowerChar(c) ==
    LET up == <<"A", "B", "C", "D", "E", "F", "G", "H", "I", "J", "K", "L",
                "M", "N", "O", "P", "Q", "R", "S", "T", "U", "V", "W", "X",
                "Y", "Z">>
        lo == <<"a", "b", "c", "d", "e", "f", "g", "h", "i", "j", "k", "l",
                "m", "n", "o", "p", "q", "r", "s", "t", "u", "v", "w", "x",
                "y", "z">>
    IN  IF \E k \in 1..26 : up[k] = c
        THEN lo[CHOOSE k \in 1..26 : up[k] = c] ELSE c

\* t.lower()
Lower(t) == Norm([k \in 1..Len(t) |-> [ch |-> LowerChar(t[k].ch), n |-> t[k].n]])

\* p in t, for a non-empty p.  An occurrence of p ends its first run of
\* equal characters where a run of t ends, unless p is one run only.
Contains(t, p) ==
    \E k \in 1..Len(t) :
        LET end == Measure(t, "len", 1, k)
        IN  /\ t[k].ch = p[1].ch
            /\ t[k].n >= p[1].n
            /\ \/ Len(p) = 1
               \/ Slice(t, end - p[1].n, end - p[1].n + TLen(p)) = p

\* the mutation of IsPayloadError that takes every exception for a payload error
IsPayloadErrorAlways(error_msg) == TRUE

\* 'Payload Too Large' in error_msg or '413' in error_msg
\* or 'too large' in error_msg.lower()
IsPayloadError(error_msg) ==
    \/ Contains(error_msg, Str(<<"P", "a", "y", "l", "o", "a", "d", " ",
                                 "T", "o", "o", " ", "L", "a", "r", "g",
                                 "e">>))
    \/ Contains(error_msg, Str(<<"4", "1", "3">>))
    \/ Contains(Lower(error_msg), Str(<<"t", "o", "o", " ", "l", "a", "r",
                                        "g", "e">>))

\* the stdout of summarized_result
RecoverySummary(original_size, summary_text) ==
    CatAll(<<ANN_1, DecStr(original_size), ANN_2, summary_text, ANN_3,
             DecStr(original_size), ANN_5, DecStr(original_size \div 1024),
             ANN_6>>)

\* the trace of the `Payload Too Large` branch
PayloadErrorTrace(ctx) ==
    LET tool_name_for_summary == IF ctx.name # <<>> THEN ctx.name
                                 ELSE UNKNOWN
        cmd_for_summary == OrElse(ctx.command, Some(UNKNOWN)).v
        original_size == ctx.total_raw_size
        reply == _generate_summary_text(cmd_for_summary, ctx.stdout_head,
                                        ctx.stderr_head, original_size)
        summarized_result ==
            EvSummarized(tool_name_for_summary, cmd_for_summary,
                         RecoverySummary(original_size, reply.text),
                         original_size)
        started == Append(_emit(<<>>, EvMessage(MSG_RETRYING, 0)), CALL)
        failed == _emit(<<>>, EvError(ERR_TOO_LARGE, 0))
    IN  IF ctx.set /\ ctx.total_raw_size > 10 * 1024
        THEN IF reply.raised
             THEN started \o failed
             ELSE IF reply.text # <<>> /\ summarized_result.size < ceiling
             THEN _emit(_emit(Append(started, summarized_result),
                              EvToolResultComplete(tool_name_for_summary,
                                                   0)),
                        EvMessage(MSG_STORED, 0))
             ELSE started \o failed
        ELSE failed

\* the mutation of RegularErrorTrace that reports nothing
RegularErrorSilent(error_msg) == <<>>

\* the trace of the `Regular error` branch
RegularErrorTrace(error_msg) ==
    LET max_error_content == ceiling - 200
        truncated_error ==
            IF TLen(error_msg) > max_error_content
            THEN Take(error_msg, max_error_content) ELSE error_msg
    IN  IF Fits(EvError(truncated_error, 0))
        THEN <<EvError(truncated_error, 0)>>
        ELSE _emit(<<>>, EvError(ERR_GENERIC, 0))

\* what the except handler yields for the exception with message error_msg
\* when last_tool_ctx is ctx
HandlerTrace(error_msg, ctx) ==
    IF IsPayloadError(error_msg)
    THEN PayloadErrorTrace(ctx)
    ELSE RegularErrorTrace(error_msg)

\* what a pass yields, the except handler included when an exception left
\* the for loop
PassTrace(st) ==
    IF st.raised.some
    THEN st.trace \o HandlerTrace(st.raised.v, st.ctx)
    ELSE st.trace

\* the except handler in the turn's current state
ExceptTrace(error_msg) == HandlerTrace(error_msg, last_tool_ctx)

\* the mutation of DoneTrace that writes the `done` event twice
DoneTraceTwice == _emit(_emit(<<>>, EvDone), EvDone)

\* yield from _emit({'type': 'done', ...}) after the loop
DoneTrace == _emit(<<>>, EvDone)

(***************************************************************************)
(* The tool ash_execute_command: agent_tools.py:52-179.                    *)
(* A reply is what requests.post meets at the IPC bridge:                  *)
(*   "ok"            status 200, success true, result the JSON result      *)
(*   "failed"        status 200, success false, error = text               *)
(*   "failed_silent" status 200, success false, no error key               *)
(*   "status"        status code `status` other than 200, body text        *)
(*   "not_json"      status 200, body not JSON; text is str(e)             *)
(*   "connection"    requests.exceptions.ConnectionError                   *)
(*   "timeout"       no reply within timeout=300; text is str(e)           *)
(* A result is a JSON object (dict TRUE) with the keys the callers read,   *)
(* an absent key holding the default its reader takes, or a JSON string.   *)
(***************************************************************************)
\* f"IPC bridge error: {str(e)}", up to the message
IPC_BRIDGE_ERROR ==
    Str(<<"I", "P", "C", " ", "b", "r", "i", "d", "g", "e", " ", "e", "r",
          "r", "o", "r", ":", " ">>)

\* 'Unknown IPC bridge error'
UNKNOWN_IPC_ERROR ==
    Str(<<"U", "n", "k", "n", "o", "w", "n", " ", "I", "P", "C", " ", "b",
          "r", "i", "d", "g", "e", " ", "e", "r", "r", "o", "r">>)

\* f"IPC bridge returned status {response.status_code}: {error_text}"
IPC_STATUS ==
    Str(<<"I", "P", "C", " ", "b", "r", "i", "d", "g", "e", " ", "r", "e",
          "t", "u", "r", "n", "e", "d", " ", "s", "t", "a", "t", "u", "s",
          " ">>)

\* ': '
COLON ==
    Str(<<":", " ">>)

\* the message of the connection error, ASH_IPC_URL at its default
IPC_NO_CONNECTION ==
    Str(<<"F", "a", "i", "l", "e", "d", " ", "t", "o", " ", "c", "o", "n",
          "n", "e", "c", "t", " ", "t", "o", " ", "I", "P", "C", " ", "b",
          "r", "i", "d", "g", "e", " ", "a", "t", " ", "h", "t", "t", "p",
          ":", "/", "/", "1", "2", "7", ".", "0", ".", "0", ".", "1", ":",
          "5", "4", "1", "1", "2", ".", " ", "I", "s", " ", "a", "s", "h",
          " ", "r", "u", "n", "n", "i", "n", "g", "?", " ", "Y", "o", "u",
          " ", "c", "a", "n", " ", "c", "o", "n", "f", "i", "g", "u", "r",
          "e", " ", "t", "h", "e", " ", "U", "R", "L", " ", "v", "i", "a",
          " ", "A", "S", "H", "_", "I", "P", "C", "_", "U", "R", "L", " ",
          "e", "n", "v", "i", "r", "o", "n", "m", "e", "n", "t", " ", "v",
          "a", "r", "i", "a", "b", "l", "e", ".">>)

\* f"Failed to connect to IPC bridge: {str(e)}", up to the message
IPC_REQUEST_FAILED ==
    Str(<<"F", "a", "i", "l", "e", "d", " ", "t", "o", " ", "c", "o", "n",
          "n", "e", "c", "t", " ", "t", "o", " ", "I", "P", "C", " ", "b",
          "r", "i", "d", "g", "e", ":", " ">>)

\* f"Connection ID {connection_id} not found. active connections: {n}"
NOT_FOUND_1 ==
    Str(<<"C", "o", "n", "n", "e", "c", "t", "i", "o", "n", " ", "I", "D",
          " ">>)

\* the middle of the message above
NOT_FOUND_2 ==
    Str(<<" ", "n", "o", "t", " ", "f", "o", "u", "n", "d", ".", " ", "a",
          "c", "t", "i", "v", "e", " ", "c", "o", "n", "n", "e", "c", "t",
          "i", "o", "n", "s", ":", " ">>)

\* str(e) of list_result.get(...) on a result that is a JSON string
NOT_A_DICT_GET ==
    Str(<<"'", "s", "t", "r", "'", " ", "o", "b", "j", "e", "c", "t", " ",
          "h", "a", "s", " ", "n", "o", " ", "a", "t", "t", "r", "i", "b",
          "u", "t", "e", " ", "'", "g", "e", "t", "'">>)

\* str(e) of result['command'] = command on a result that is a JSON string
NOT_A_DICT_SET ==
    Str(<<"'", "s", "t", "r", "'", " ", "o", "b", "j", "e", "c", "t", " ",
          "d", "o", "e", "s", " ", "n", "o", "t", " ", "s", "u", "p", "p",
          "o", "r", "t", " ", "i", "t", "e", "m", " ", "a", "s", "s", "i",
          "g", "n", "m", "e", "n", "t">>)

\* str(e) of the requests timeout after 300 s
READ_TIMED_OUT ==
    Str(<<"R", "e", "a", "d", " ", "t", "i", "m", "e", "d", " ", "o", "u",
          "t", ".", " ", "(", "r", "e", "a", "d", " ", "t", "i", "m", "e",
          "o", "u", "t", "=", "3", "0", "0", ")">>)

\* a bridge error that reports a denial
DENIED ==
    Str(<<"R", "e", "q", "u", "e", "s", "t", " ", "d", "e", "n", "i", "e",
          "d", " ", "b", "y", " ", "u", "s", "e", "r">>)

\* the patterns by which a fault is recognised as a denial
DENIED_BY_USER ==
    Str(<<"d", "e", "n", "i", "e", "d", " ", "b", "y", " ", "u", "s", "e",
          "r">>)

DENIED_PERMISSION ==
    Str(<<"d", "e", "n", "i", "e", "d", " ", "p", "e", "r", "m", "i", "s",
          "s", "i", "o", "n">>)

\* a bridge error of the same length that reports no denial
GENERIC ==
    Str(<<"R", "e", "q", "u", "e", "s", "t", " ", "f", "a", "i", "l", "e",
          "d", " ", "o", "n", " ", "h", "o", "s", "t">>)

\* connection ids
CONN_1 ==
    Str(<<"c", "1">>)

\* a second connection id
CONN_2 ==
    Str(<<"c", "2">>)

NoIpcResult ==
    [dict |-> FALSE, connections |-> <<>>, success |-> TRUE,
     output |-> <<>>, error |-> <<>>, exitCode |-> 0]

\* call_ash_ipc returns result.get("result", {})
IpcReturn(result) == [raised |-> FALSE, msg |-> <<>>, result |-> result]

\* call_ash_ipc raises Exception(msg)
IpcRaise(msg) == [raised |-> TRUE, msg |-> msg, result |-> NoIpcResult]

\* An Exception raised in the try body (lines 99 and 103) is caught by the
\* last handler of the routine and raised again with the prefix of line 114.
call_ash_ipc(reply) ==
    CASE reply.kind = "ok" -> IpcReturn(reply.result)
      [] reply.kind = "failed" ->
            IpcRaise(Cat(IPC_BRIDGE_ERROR, reply.text))
      [] reply.kind = "failed_silent" ->
            IpcRaise(Cat(IPC_BRIDGE_ERROR, UNKNOWN_IPC_ERROR))
      [] reply.kind = "status" ->
            IpcRaise(CatAll(<<IPC_BRIDGE_ERROR, IPC_STATUS,
                              DecStr(reply.status), COLON, reply.text>>))
      [] reply.kind = "not_json" ->
            IpcRaise(Cat(IPC_BRIDGE_ERROR, reply.text))
      [] reply.kind = "connection" -> IpcRaise(IPC_NO_CONNECTION)
      [] OTHER -> IpcRaise(Cat(IPC_REQUEST_FAILED, reply.text))

\* what UnifiedExecuteTool.call hands to the agent runtime: the JSON object
\* it returns as text, by the keys generate() reads, or an exception
ToolReturn(success, output, error, exitCode, command) ==
    [raised |-> FALSE, success |-> success, output |-> output,
     error |-> error, exitCode |-> exitCode, command |-> command,
     log |-> "none"]

\* "denied by user" in error_msg or "denied permission" in error_msg
IsDenial(error_msg) ==
    \/ Contains(error_msg, DENIED_BY_USER)
    \/ Contains(error_msg, DENIED_PERMISSION)

\* the mutation of HandleFault that reports a denial as the output of a
\* call that succeeded
HandleFaultDenied(error_msg) ==
    IF IsDenial(error_msg)
    THEN ToolReturn(TRUE, error_msg, <<>>, 0, None)
    ELSE [ToolReturn(FALSE, <<>>, error_msg, 0, None) EXCEPT !.log = "error"]

\* the mutation of HandleFault that lets the exception leave the call
HandleFaultRaising(error_msg) ==
    [raised |-> TRUE, success |-> FALSE, output |-> <<>>,
     error |-> error_msg, exitCode |-> 0, command |-> None,
     log |-> "error"]

\* except Exception as e: the denial is logged with _logger.info, any other
\* fault with _logger.error, and both
\* return json.dumps({"success": False, "error": str(e)})
HandleFault(error_msg) ==
    [ToolReturn(FALSE, <<>>, error_msg, 0, None)
        EXCEPT !.log = IF IsDenial(error_msg) THEN "info" ELSE "error"]

\* next((c for c in connections if c.get('connectionId') == connection_id), None)
Target(connections, connection_id) ==
    LET hits == {k \in 1..Len(connections) :
                    connections[k].connectionId = connection_id}
    IN  IF hits = {} THEN None
        ELSE Some(connections[CHOOSE k \in hits : \A j \in hits : k <= j])

\* channel_map.get(conn_type, 'ssh-exec-command')
Channel(conn_type) ==
    CASE conn_type = "ssh" -> "ssh-exec-command"
      [] conn_type = "telnet" -> "telnet-exec-command"
      [] conn_type = "serial" -> "serial-exec-command"
      [] conn_type = "local" -> "local-exec-command"
      [] OTHER -> "ssh-exec-command"

\* 3. Execute: the second call of call_ash_ipc and what becomes of its outcome
Executed(command, called) ==
    IF called.raised THEN HandleFault(called.msg)
    ELSE IF ~called.result.dict THEN HandleFault(NOT_A_DICT_SET)
    ELSE ToolReturn(called.result.success, called.result.output,
                    called.result.error, called.result.exitCode,
                    Some(command))

\* 2. Route: the connection found, or the record that reports it missing
Routed(connection_id, command, connections, target, bridge) ==
    IF ~target.some
    THEN ToolReturn(FALSE, <<>>,
                    CatAll(<<NOT_FOUND_1, connection_id, NOT_FOUND_2,
                             DecStr(Len(connections))>>), 0, None)
    ELSE Executed(command, call_ash_ipc(bridge.exec[Channel(target.v.type)]))

\* 1. Lookup: the first call of call_ash_ipc and what becomes of its outcome
Listed(connection_id, command, listed, bridge) ==
    IF listed.raised THEN HandleFault(listed.msg)
    ELSE IF ~listed.result.dict THEN HandleFault(NOT_A_DICT_GET)
    ELSE Routed(connection_id, command, listed.result.connections,
                Target(listed.result.connections, connection_id), bridge)

\* UnifiedExecuteTool.call for parameters that parse to connection_id and
\* command, with the bridge answering each channel as bridge says
UnifiedExecuteTool_call(connection_id, command, bridge) ==
    Listed(connection_id, command, call_ash_ipc(bridge.list), bridge)

\* no tool call in progress
NoTool ==
    [phase |-> "idle", connection_id |-> <<>>, command |-> <<>>,
     bridge |-> [list |-> <<>>, exec |-> <<>>],
     returned |-> HandleFault(<<>>)]

\* no second request
NoTurn == [pc |-> "none"]

\* no request is being handled by execute_task_stream
NoRequest ==
    [phase |-> "none", connection_id |-> None,
     bridge |-> [list |-> <<>>, exec |-> <<>>],
     current_directory |-> None, status |-> 0]

(***************************************************************************)
(* Inputs: what the agent runtime yields in a turn.  A scenario is the     *)
(* sequence of cumulative snapshots of assistant.run(); the runtime may    *)
(* also yield a snapshot again, stop, or raise after any of them.          *)
(***************************************************************************)
\* length of a text too large for one frame
BigLen == 40000
\* length of a tool name long enough to push a minimal chunk over the ceiling
LongNameLen == 2000
\* repeated yields of one snapshot in a turn
MaxReplays == 1

A_CALL_LS == CallMsg(<<>>, EXEC, CommandArgs(LS))
R_FILES == JsonResultMsg("tool", EXEC, TRUE, FILES, <<>>, 0, None)
A_FOUND == AssistantMsg(FOUND)

\* the end-to-end scenario of the specification
E2E == << <<A_CALL_LS>>, <<A_CALL_LS, R_FILES>>,
          <<A_CALL_LS, R_FILES, A_FOUND>> >>

CallOf(tool_name, c) == CallMsg(<<>>, tool_name, CommandArgs(T(c, 1)))
ResultOf(tool_name, c) ==
    JsonResultMsg("function", tool_name, FALSE, <<>>, T(c, 3), 1, None)

\* three announcements A, B, C, then their results, none embedding a command
FIFO(tool_name) ==
    LET calls == <<CallOf(tool_name, "A"), CallOf(tool_name, "B"),
                   CallOf(tool_name, "C")>>
    IN  << calls,
           Append(calls, ResultOf(tool_name, "a")),
           calls \o <<ResultOf(tool_name, "a"), ResultOf(tool_name, "b")>>,
           calls \o <<ResultOf(tool_name, "a"), ResultOf(tool_name, "b"),
                      ResultOf(tool_name, "c")>> >>

\* one assistant message whose content grows
STREAM == << <<AssistantMsg(Take(FOUND, 5))>>,
             <<AssistantMsg(Take(FOUND, 7))>>, <<A_FOUND>> >>

\* assistant content too large for one frame, then extended
BIGCONTENT(c) == << <<AssistantMsg(T(c, BigLen))>>,
                    <<AssistantMsg(T(c, BigLen + 10))>> >>

\* assistant content that grows beyond MAX_ASSISTANT_CONTENT_SIZE
OVERSIZE == << <<AssistantMsg(T("a", 10))>>,
               <<AssistantMsg(T("a", MAX_ASSISTANT_CONTENT_SIZE + 1)),
                 A_FOUND>>,
               <<AssistantMsg(T("a", MAX_ASSISTANT_CONTENT_SIZE + 1)),
                 A_FOUND>> >>

\* the content at an index is replaced, not extended
REPLACE == << <<AssistantMsg(Str(<<"a", "b", "c">>))>>,
              <<AssistantMsg(Str(<<"x", "y", "z">>))>>,
              <<AssistantMsg(Empty)>>,
              <<AssistantMsg(T(CTRL, BigLen))>>,
              <<AssistantMsg(T("b", MAX_ASSISTANT_CONTENT_SIZE + 1))>> >>

\* the content at an index grows after a later message was observed
REVISED == << <<AssistantMsg(Take(FOUND, 5))>>,
              <<AssistantMsg(Take(FOUND, 5)), A_FOUND>>,
              <<AssistantMsg(Take(FOUND, 7)), A_FOUND,
                AssistantMsg(Take(FOUND, 3))>> >>

\* a length whose estimate reaches the ceiling while the frame would fit
NearLen == 27000

\* a call of the registered tool and its result with the given output
TOOLRUN(tool_name, output, error) ==
    LET call == CallMsg(<<>>, ASH_EXECUTE_COMMAND, CommandArgs(LS))
        result == JsonResultMsg("function", tool_name, TRUE, output, error,
                                0, Some(LS))
    IN  << <<call>>, <<call, result>>, <<call, result, A_FOUND>> >>

\* a tool-call announcement whose arguments alone exceed the ceiling
BIGARGS == << <<CallMsg(<<>>, ASH_SSH_EXECUTE, CommandArgs(T("a", BigLen)))>> >>

\* a call of the registered tool with a command of BigLen characters, and
\* its result, which embeds the command as UnifiedExecuteTool.call writes it
BIGCOMMAND ==
    LET call == CallMsg(<<>>, ASH_EXECUTE_COMMAND,
                        CommandArgs(T("c", BigLen)))
        result == JsonResultMsg("function", ASH_EXECUTE_COMMAND, TRUE,
                                T("a", BigLen), T("e", 10), 0,
                                Some(T("c", BigLen)))
    IN  << <<call>>, <<call, result>>, <<call, result, A_FOUND>> >>

\* tool contents that are not JSON objects
RAWRUN(kind, raw) ==
    << <<A_CALL_LS>>, <<A_CALL_LS, TextResultMsg("function", EXEC, kind, raw)>>,
       <<A_CALL_LS, TextResultMsg("function", EXEC, kind, raw), A_FOUND>> >>

\* three announcements A, B, C under a legacy name, then results that embed
\* the command "Z", the empty string, and no command
EMBED ==
    LET calls == <<CallOf(ASH_SSH_EXECUTE, "A"), CallOf(ASH_SSH_EXECUTE, "B"),
                   CallOf(ASH_SSH_EXECUTE, "C")>>
        r1 == JsonResultMsg("function", ASH_SSH_EXECUTE, TRUE, T("o", 3),
                            <<>>, 0, Some(T("Z", 1)))
        r2 == JsonResultMsg("function", ASH_SSH_EXECUTE, TRUE, T("o", 3),
                            <<>>, 0, Some(Empty))
        r3 == JsonResultMsg("function", ASH_SSH_EXECUTE, TRUE, T("o", 3),
                            <<>>, 0, None)
    IN  << calls, Append(calls, r1), calls \o <<r1, r2>>,
           calls \o <<r1, r2, r3>> >>

\* a length above the 10 KiB the failure-time summarizer asks for
CtxLen == 11000

\* a structured result, then a result of another tool that cannot be parsed
STALE ==
    LET call == CallMsg(<<>>, ASH_EXECUTE_COMMAND, CommandArgs(LS))
        result == JsonResultMsg("function", ASH_EXECUTE_COMMAND, TRUE,
                                T("a", CtxLen), <<>>, 0, Some(LS))
        raw == TextResultMsg("function", EXEC, "malformed",
                             Cat(T("{", 1), T("x", 10)))
    IN  << <<call>>, <<call, result>>, <<call, result, A_CALL_LS>>,
           <<call, result, A_CALL_LS, raw>> >>

\* a snapshot shorter than the one before it: the message at index 2 is
\* withdrawn and yielded again
SHRINK ==
    LET found == AssistantMsg(Take(FOUND, 5))
        call == CallOf(ASH_SSH_EXECUTE, "A")
    IN  << <<found>>, <<found, call>>, <<A_FOUND>>, <<A_FOUND, call>> >>

\* a function_call that appears on a message observed before without one,
\* and arguments that change on a call announced before
LATECALL ==
    LET found == Take(FOUND, 5)
        late == CallMsg(found, ASH_SSH_EXECUTE, CommandArgs(T("A", 1)))
    IN  << <<AssistantMsg(found)>>, <<late>>,
           <<late, CallOf(ASH_SSH_EXECUTE, "B")>>,
           <<late, CallOf(ASH_SSH_EXECUTE, "C")>> >>

\* two calls announced together, the first of a tool for which no command
\* is extracted, then their results in the order of the calls
PARALLEL ==
    LET calls == <<CallOf(ASH_EXECUTE_COMMAND, "X"),
                   CallOf(ASH_SSH_EXECUTE, "Y")>>
    IN  << calls,
           Append(calls, ResultOf(ASH_EXECUTE_COMMAND, "x")),
           calls \o <<ResultOf(ASH_EXECUTE_COMMAND, "x"),
                      ResultOf(ASH_SSH_EXECUTE, "y")>> >>

Scenarios ==
    { E2E, EMBED, BIGCOMMAND, STALE, SHRINK, LATECALL, PARALLEL,
      FIFO(ASH_SSH_EXECUTE), FIFO(ASH_EXECUTE_COMMAND), STREAM,
      BIGCONTENT("a"), BIGCONTENT(CTRL), OVERSIZE, REPLACE, REVISED, BIGARGS,
      TOOLRUN(ASH_EXECUTE_COMMAND, T("a", 6 * 1024 * 1024), T("e", 10)),
      TOOLRUN(ASH_EXECUTE_COMMAND, T("a", BigLen), T("e", 10)),
      TOOLRUN(ASH_EXECUTE_COMMAND, T(NL, 26000), <<>>),
      TOOLRUN(ASH_EXECUTE_COMMAND, T("a", NearLen), <<>>),
      TOOLRUN(T("n", LongNameLen), T(CTRL, BigLen), T("e", 10)),
      RAWRUN("text", Str(<<"p", "l", "a", "i", "n">>)),
      RAWRUN("malformed", Cat(T("{", 1), T("x", 10))),
      RAWRUN("malformed", Cat(T("{", 1), T("x", BigLen))),
      RAWRUN("malformed", Cat(T("{", 1), T(CTRL, BigLen))),
      RAWRUN("text", Cat(T("p", 3), T(SURR, 1))),
      TOOLRUN(ASH_EXECUTE_COMMAND, Cat(T("a", 3), T(SURR, 1)), <<>>) }

Summarizers == {"text", "bigtext", "empty", "raise"}

\* str(e) of the exceptions the runtime raises
Exceptions ==
    { Str(<<"b", "o", "o", "m">>),
      Str(<<"4", "1", "3", " ", "P", "a", "y", "l", "o", "a", "d", " ", "T",
            "o", "o", " ", "L", "a", "r", "g", "e">>),
      T(NL, BigLen) }

\* every message of old is still there in new, an assistant content extended
Extends(old, new) ==
    \A i \in 1..Len(old) :
        /\ i <= Len(new)
        /\ new[i].role = old[i].role
        /\ StartsWith(new[i].content.v, old[i].content.v)

(***************************************************************************)
(* The turn                                                                *)
(***************************************************************************)
Init ==
    /\ pc = "running"
    /\ ceiling = MAX_CHUNK_SIZE
    /\ previous_response = <<>>
    /\ assistant_content_map = <<>>
    /\ tool_command_queue = <<>>
    /\ last_tool_ctx = NoCtx
    /\ wire = <<>>
    /\ scenario \in Scenarios
    /\ pos = 0
    /\ replays = 0
    /\ observed = <<>>
    /\ summarizer \in Summarizers
    /\ summary_calls = 0
    /\ outcome = "none"
    /\ prefix_ok = TRUE
    /\ ck = NoChunker
    /\ tool = NoTool
    /\ suspended = NoTurn
    /\ request = NoRequest

\* the mutation of Finally that yields nothing
FinallySilent(out) == out

\* finally: yield "data: [DONE]\n\n"
Finally(out) == Append(out, SENTINEL)

\* generate() leaves the try block and its finally clause runs
Terminate(trace, how) ==
    /\ wire' = Finally(wire \o Frames(trace))
    /\ summary_calls' = summary_calls + Calls(trace)
    /\ pc' = "closed"
    /\ outcome' = how

\* the mutation of Observed that never moves the cursor back: a snapshot
\* shorter than previous_response leaves it as it is
ObservedKeepLonger(st, response_chunk) ==
    /\ observed' = response_chunk
    /\ prefix_ok' = (prefix_ok /\ Extends(observed, response_chunk))
    /\ last_tool_ctx' = st.ctx
    /\ assistant_content_map' = st.map
    /\ tool_command_queue' = st.queue
    /\ IF st.returned \/ st.raised.some
       THEN /\ Terminate(PassTrace(st),
                         IF st.raised.some THEN "exception" ELSE "returned")
            /\ UNCHANGED previous_response
       ELSE /\ wire' = wire \o Frames(st.trace)
            /\ summary_calls' = summary_calls + Calls(st.trace)
            /\ previous_response' =
                   IF Len(response_chunk) >= Len(previous_response)
                   THEN response_chunk ELSE previous_response
            /\ UNCHANGED <<pc, outcome>>

\* the body of `for response_chunk in assistant.run(...)` for one snapshot
\* the state after the pass st over the snapshot response_chunk
Observed(st, response_chunk) ==
    /\ observed' = response_chunk
    /\ prefix_ok' = (prefix_ok /\ Extends(observed, response_chunk))
    /\ last_tool_ctx' = st.ctx
    /\ assistant_content_map' = st.map
    /\ tool_command_queue' = st.queue
    /\ IF st.returned \/ st.raised.some
       THEN /\ Terminate(PassTrace(st),
                         IF st.raised.some THEN "exception" ELSE "returned")
            /\ UNCHANGED previous_response
       ELSE /\ wire' = wire \o Frames(st.trace)
            /\ summary_calls' = summary_calls + Calls(st.trace)
            /\ previous_response' = response_chunk
            /\ UNCHANGED <<pc, outcome>>

\* the body of `for response_chunk in assistant.run(...)` for one snapshot
Observe(response_chunk) ==
    Observed(ProcSnapshot(response_chunk), response_chunk)

\* the runtime yields its next snapshot
RuntimeYield ==
    /\ pc = "running"
    /\ pos < Len(scenario)
    /\ Observe(scenario[pos + 1])
    /\ pos' = pos + 1
    /\ UNCHANGED <<request, ceiling, tool, suspended, scenario, replays, summarizer, ck>>

\* the runtime yields the snapshot it yielded last once more
RuntimeReplay ==
    /\ pc = "running"
    /\ pos >= 1
    /\ replays < MaxReplays
    /\ Observe(observed)
    /\ replays' = replays + 1
    /\ UNCHANGED <<request, ceiling, tool, suspended, scenario, pos, summarizer, ck>>

\* assistant.run() is exhausted: `done`, then the finally clause
RuntimeFinish ==
    /\ pc = "running"
    /\ Terminate(DoneTrace, "done")
    /\ UNCHANGED <<request, ceiling, tool, suspended, previous_response, assistant_content_map,
                   tool_command_queue, last_tool_ctx, scenario, pos, replays,
                   observed, summarizer, prefix_ok, ck>>

\* assistant.run() raises: the except handler, then the finally clause
RuntimeRaise ==
    /\ pc = "running"
    /\ \E error_msg \in Exceptions :
           Terminate(ExceptTrace(error_msg), "exception")
    /\ UNCHANGED <<request, ceiling, tool, suspended, previous_response, assistant_content_map,
                   tool_command_queue, last_tool_ctx, scenario, pos, replays,
                   observed, summarizer, prefix_ok, ck>>

\* the traces generate() can run through from its current position
NextTraces ==
    (IF pos < Len(scenario)
     THEN {PassTrace(ProcSnapshot(scenario[pos + 1]))} ELSE {})
    \cup {DoneTrace}
    \cup {ExceptTrace(error_msg) : error_msg \in Exceptions}

\* The client disconnects and the transport closes the generator while it
\* is suspended at a yield: GeneratorExit is raised there, no `except
\* Exception` clause catches it, and the finally clause runs.
ClientDisconnect ==
    /\ pc = "running"
    /\ \E trace \in NextTraces :
           \E n \in 1..Len(trace) :
               /\ IsFrame(trace[n])
               /\ Terminate(SubSeq(trace, 1, n), "disconnected")
    /\ UNCHANGED <<request, ceiling, tool, suspended, previous_response, assistant_content_map,
                   tool_command_queue, last_tool_ctx, scenario, pos, replays,
                   observed, summarizer, prefix_ok, ck>>

Next ==
    \/ RuntimeYield
    \/ RuntimeReplay
    \/ RuntimeFinish
    \/ RuntimeRaise
    \/ ClientDisconnect

Spec == Init /\ [][Next]_vars

(***************************************************************************)
(* The adaptive chunker alone, one loop iteration per step, for any text,  *)
(* either caller's base fields and any ceiling.                            *)
(***************************************************************************)
\* the smallest ceiling considered
MinCeiling == 5000
\* a ceiling between the chunk-size floor and the first reduced chunk size
MidCeiling == 12000

Ceilings == {MinCeiling, MidCeiling, MAX_CHUNK_SIZE}

\* the least and the greatest number of bytes by which the texts at the
\* edge are shorter than a ceiling; a content_chunk frame has 66 bytes
\* around its content
EdgeMin == 64
EdgeMax == 68

\* texts whose single frame is as large as a ceiling, or nearly
EdgeTexts == {T("a", c - d) : c \in Ceilings, d \in EdgeMin..EdgeMax}

ChunkTexts ==
    {T(c, n) : c \in {"a", NL, CTRL, WIDE},
               n \in {0, 1, 4000, BigLen \div 2, BigLen}}
    \cup {Cat(T("a", BigLen \div 2), T(CTRL, BigLen \div 2)),
          Cat(T(CTRL, BigLen \div 2), T("a", BigLen \div 2))}
    \cup EdgeTexts

ChunkInputs ==
    {ChunkStart([Ev EXCEPT !.type = "content_chunk"],
                <<<<"type", JLit("content_chunk")>>>>,
                text, "content", "chunk_index", 15 * 1024) :
        text \in ChunkTexts}
    \cup
    {ChunkStart([Ev EXCEPT !.type = "tool_result_chunk", !.name = EXEC,
                           !.stream = "stdout"],
                <<<<"type", JLit("tool_result_chunk")>>,
                  <<"name", JStr(EXEC)>>, <<"stream", JLit("stdout")>>>>,
                text, "chunk", "index", 30 * 1024) :
        text \in ChunkTexts \ {<<>>}}

InitChunk ==
    /\ pc = "chunker"
    /\ ceiling \in Ceilings
    /\ ck \in ChunkInputs
    /\ previous_response = <<>>
    /\ assistant_content_map = <<>>
    /\ tool_command_queue = <<>>
    /\ last_tool_ctx = NoCtx
    /\ wire = <<>>
    /\ scenario = <<>>
    /\ pos = 0
    /\ replays = 0
    /\ observed = <<>>
    /\ summarizer = "text"
    /\ summary_calls = 0
    /\ outcome = "none"
    /\ prefix_ok = TRUE
    /\ tool = NoTool
    /\ suspended = NoTurn
    /\ request = NoRequest

\* one iteration of the while loop of _emit_text_chunks
ChunkIteration ==
    /\ ck.ret = "running"
    /\ ck' = ChunkStep(ck)
    /\ UNCHANGED <<request, ceiling, tool, suspended, turn_vars>>

NextChunk == ChunkIteration

SpecChunk == InitChunk /\ [][NextChunk]_vars

\* the chunker is a loop of a running generator: while it has not returned
\* it goes on to its next iteration
SpecChunkFair == SpecChunk /\ WF_vars(NextChunk)

(***************************************************************************)
(* A turn in which the agent runtime calls ash_execute_command: the call   *)
(* is announced, UnifiedExecuteTool.call runs against a bridge that        *)
(* answers or fails, and what it returns comes back as a function message. *)
(***************************************************************************)
Reply(kind, text, result) ==
    [kind |-> kind, status |-> 500, text |-> text, result |-> result]

\* the replies by which the bridge fails, with the given texts
FaultReplies(texts) ==
    {Reply(kind, text, NoIpcResult) :
        kind \in {"failed", "status", "not_json"}, text \in texts}
    \cup {Reply("failed_silent", <<>>, NoIpcResult),
          Reply("connection", <<>>, NoIpcResult),
          Reply("timeout", READ_TIMED_OUT, NoIpcResult)}

Connection(connection_id, type) ==
    [connectionId |-> connection_id, type |-> type]

ListReplies ==
    {Reply("ok", <<>>, [NoIpcResult EXCEPT !.dict = TRUE,
                                           !.connections = connections]) :
        connections \in
            { <<>>, <<Connection(CONN_1, "ssh")>>,
              <<Connection(CONN_2, "local"), Connection(CONN_1, "telnet")>>,
              <<Connection(CONN_1, "bluetooth")>> }}
    \cup {Reply("ok", <<>>, NoIpcResult)}
    \cup FaultReplies({DENIED})

ExecReplies ==
    {Reply("ok", <<>>, [NoIpcResult EXCEPT !.dict = TRUE, !.output = FILES]),
     Reply("ok", <<>>, [NoIpcResult EXCEPT !.dict = TRUE,
                                           !.output = T("a", BigLen)]),
     Reply("ok", <<>>, [NoIpcResult EXCEPT !.dict = TRUE, !.success = FALSE,
                                           !.error = T("e", 10),
                                           !.exitCode = 1]),
     Reply("ok", <<>>, NoIpcResult)}
    \cup FaultReplies({DENIED, T("e", BigLen)})

Channels == {"ssh-exec-command", "telnet-exec-command",
             "serial-exec-command", "local-exec-command"}

\* the announcement of the call (its arguments shown without connection_id)
A_EXECUTE == CallMsg(<<>>, ASH_EXECUTE_COMMAND, CommandArgs(LS))

InitTool ==
    /\ pc = "running"
    /\ ceiling = MAX_CHUNK_SIZE
    /\ previous_response = <<>>
    /\ assistant_content_map = <<>>
    /\ tool_command_queue = <<>>
    /\ last_tool_ctx = NoCtx
    /\ wire = <<>>
    /\ scenario = << <<A_EXECUTE>> >>
    /\ pos = 0
    /\ replays = 0
    /\ observed = <<>>
    /\ summarizer = "text"
    /\ summary_calls = 0
    /\ outcome = "none"
    /\ prefix_ok = TRUE
    /\ ck = NoChunker
    /\ \E list \in ListReplies, exec \in ExecReplies :
           tool = [NoTool EXCEPT
                      !.phase = "pending", !.connection_id = CONN_1,
                      !.command = LS,
                      !.bridge = [list |-> list,
                                  exec |-> [ch \in Channels |-> exec]]]
    /\ suspended = NoTurn
    /\ request = NoRequest

\* the function message the runtime appends for what the call returned
ToolMessage(r) ==
    JsonResultMsg("function", ASH_EXECUTE_COMMAND, r.success, r.output,
                  r.error, r.exitCode, r.command)

\* the snapshots the runtime yields after the call returned r
AfterTool(r) ==
    IF r.raised THEN <<>>
    ELSE << <<A_EXECUTE, ToolMessage(r)>>,
            <<A_EXECUTE, ToolMessage(r), A_FOUND>> >>

\* the call of the tool has ended with r
ToolEnded(r) ==
    /\ tool' = [tool EXCEPT !.phase = IF r.raised THEN "raised"
                                      ELSE "returned",
                            !.returned = r]
    /\ scenario' = scenario \o AfterTool(r)

\* the runtime, having yielded the announcement, runs the tool
ToolInvoke ==
    /\ pc = "running"
    /\ tool.phase = "pending"
    /\ pos = 1
    /\ ToolEnded(UnifiedExecuteTool_call(tool.connection_id, tool.command,
                                         tool.bridge))
    /\ UNCHANGED <<request, pc, ceiling, previous_response,
                   assistant_content_map,
                   tool_command_queue, last_tool_ctx, wire, pos, replays,
                   observed, summarizer, summary_calls, outcome, prefix_ok,
                   ck, suspended>>

NextTool ==
    \/ ToolInvoke
    \/ RuntimeYield
    \/ RuntimeReplay
    \/ RuntimeFinish
    \/ RuntimeRaise
    \/ ClientDisconnect

SpecTool == InitTool /\ [][NextTool]_vars

(***************************************************************************)
(* Two requests served at once.  Each request has its own activation of    *)
(* generate(), its own agent runtime and its own response stream; the      *)
(* server runs one activation at a time and can leave it for the other     *)
(* whenever it is suspended at a yield.  The variables of the turn are the *)
(* cells of the activation that runs; `suspended` holds those of the other.*)
(* Both requests use one language model, so one `summarizer`.              *)
(***************************************************************************)
\* the mutation of Cell in which the name denotes one cell of the module
CellShared(own, other) == other

\* previous_response, assistant_content_map, tool_command_queue and
\* last_tool_ctx are bound inside generate(): a resumed activation finds the
\* value it left (own), whatever the other activation holds (other)
Cell(own, other) == own

\* the activation that runs, as it is suspended
Activation(id) ==
    [id |-> id, pc |-> pc, previous_response |-> previous_response,
     assistant_content_map |-> assistant_content_map,
     tool_command_queue |-> tool_command_queue,
     last_tool_ctx |-> last_tool_ctx, wire |-> wire, scenario |-> scenario,
     pos |-> pos, replays |-> replays, observed |-> observed,
     summary_calls |-> summary_calls, outcome |-> outcome,
     prefix_ok |-> prefix_ok]

\* the server leaves the running activation and resumes the suspended one
Switch ==
    /\ suspended.pc # "none"
    /\ suspended' = Activation(3 - suspended.id)
    /\ pc' = suspended.pc
    /\ previous_response' =
           Cell(suspended.previous_response, previous_response)
    /\ assistant_content_map' =
           Cell(suspended.assistant_content_map, assistant_content_map)
    /\ tool_command_queue' =
           Cell(suspended.tool_command_queue, tool_command_queue)
    /\ last_tool_ctx' = Cell(suspended.last_tool_ctx, last_tool_ctx)
    /\ wire' = suspended.wire
    /\ scenario' = suspended.scenario
    /\ pos' = suspended.pos
    /\ replays' = suspended.replays
    /\ observed' = suspended.observed
    /\ summary_calls' = suspended.summary_calls
    /\ outcome' = suspended.outcome
    /\ prefix_ok' = suspended.prefix_ok
    /\ UNCHANGED <<request, ceiling, summarizer, ck, tool>>

\* the turns that run side by side
PairScenarios ==
    { STREAM, FIFO(ASH_SSH_EXECUTE),
      TOOLRUN(ASH_EXECUTE_COMMAND, T("a", BigLen), T("e", 10)) }

InitPair ==
    /\ pc = "running"
    /\ ceiling = MAX_CHUNK_SIZE
    /\ previous_response = <<>>
    /\ assistant_content_map = <<>>
    /\ tool_command_queue = <<>>
    /\ last_tool_ctx = NoCtx
    /\ wire = <<>>
    /\ scenario \in PairScenarios
    /\ pos = 0
    /\ replays = 0
    /\ observed = <<>>
    /\ summarizer = "text"
    /\ summary_calls = 0
    /\ outcome = "none"
    /\ prefix_ok = TRUE
    /\ ck = NoChunker
    /\ tool = NoTool
    /\ request = NoRequest
    /\ \E other \in PairScenarios :
           suspended =
               [id |-> 2, pc |-> "running", previous_response |-> <<>>,
                assistant_content_map |-> <<>>, tool_command_queue |-> <<>>,
                last_tool_ctx |-> NoCtx, wire |-> <<>>, scenario |-> other,
                pos |-> 0, replays |-> 0, observed |-> <<>>,
                summary_calls |-> 0, outcome |-> "none", prefix_ok |-> TRUE]

NextPair ==
    \/ Switch
    \/ RuntimeYield
    \/ RuntimeFinish
    \/ RuntimeRaise

SpecPair == InitPair /\ [][NextPair]_vars

(***************************************************************************)
(* Properties                                                              *)
(***************************************************************************)
\* the positions of the frames of one type in a sequence of frames
Of(frames, type) == {k \in 1..Len(frames) : frames[k].type = type}

RECURSIVE Joined(_, _, _)
\* the texts of the frames lo..hi, concatenated in order
Joined(frames, lo, hi) ==
    IF lo > hi THEN <<>>
    ELSE IF lo = hi THEN frames[lo].text
    ELSE LET mid == (lo + hi) \div 2
         IN  Cat(Joined(frames, lo, mid), Joined(frames, mid + 1, hi))

\* the content_chunk frames written for the transcript message at idx
ContentFrames(idx) ==
    SelectSeq(wire, LAMBDA ev : ev.type = "content_chunk" /\ ev.idx = idx)

\* the concatenation of all content_chunk texts written for the message
ContentEmitted(idx) ==
    Joined(ContentFrames(idx), 1, Len(ContentFrames(idx)))

\* the content of the message at idx as the runtime yielded it last
ContentObserved(idx) ==
    IF observed[idx].content.some THEN observed[idx].content.v ELSE <<>>

AssistantIndices == {idx \in 1..Len(observed) : observed[idx].role = "assistant"}

\* the chunk frames one run of the chunker has written
ChunkFrames == SelectSeq(ck.out, LAMBDA ev : ev.type = ck.base_ev.type)

ChunksJoined == Joined(ChunkFrames, 1, Len(ChunkFrames))

\* C1: on every path of a turn, whatever failed, the last frame generate()
\* yields is the [DONE] sentinel, it is yielded exactly once, and nothing is
\* yielded after it (a closed generator takes no further step).
C1_TerminalSentinel ==
    /\ [](/\ pc = "running" => Of(wire, SENTINEL.type) = {}
          /\ pc = "closed" => /\ Len(wire) >= 1
                              /\ Of(wire, SENTINEL.type) = {Len(wire)}
                              /\ wire[Len(wire)] = SENTINEL)
    /\ [][pc = "running"]_vars

\* a turn that ended in the except handler after a summarizer call
C1_Witness ==
    /\ pc = "closed"
    /\ outcome = "exception"
    /\ summary_calls >= 1
    /\ wire[Len(wire)] = SENTINEL

\* C2 as claimed: every frame written during a turn, of every type, is
\* smaller than MAX_CHUNK_SIZE.
C2_CeilingEveryType ==
    \A k \in 1..Len(wire) : wire[k].size < MAX_CHUNK_SIZE

\* C3: no frame the chunker writes reaches the ceiling; when it returns
\* True the chunk texts joined in index order are the text, and when it
\* returns False they are a proper prefix of it.
C3_ChunkRoundTrip ==
    pc = "chunker" =>
        /\ \A k \in 1..Len(ck.out) : ck.out[k].size < ceiling
        /\ \A k \in 1..Len(ChunkFrames) : ChunkFrames[k].index = k - 1
        /\ ck.ret = "true" => ChunksJoined = ck.text
        /\ ck.ret = "false" => /\ StartsWith(ck.text, ChunksJoined)
                               /\ ChunksJoined # ck.text

\* a finished run that shrank its chunk size and still delivered the text
C3_Witness ==
    /\ pc = "chunker"
    /\ ck.ret = "true"
    /\ ck.chunk_size < ck.initial
    /\ Len(ChunkFrames) >= 2
    /\ ChunksJoined = ck.text

\* C3 as claimed: for every ceiling of at least 5000 the chunks of a
\* finished run, joined in index order, are the text, none above the ceiling.
C3_RoundTripAnyCeiling ==
    (pc = "chunker" /\ ceiling >= MIN_CHUNK_SIZE /\ ck.ret \in {"true", "false"})
        => /\ ChunksJoined = ck.text
           /\ \A k \in 1..Len(ChunkFrames) : ChunkFrames[k].size <= ceiling

C5_ReplayEmitsNothing ==
    [][replays' # replays => /\ wire' = wire
                             /\ summary_calls' = summary_calls
                             /\ pc' = "running"]_vars

\* a snapshot with a tool call, its result and content was yielded twice
C5_Witness ==
    /\ replays >= 1
    /\ pc = "running"
    /\ Len(previous_response) >= 3
    /\ Of(wire, "tool_call") # {}
    /\ Of(wire, "tool_result") # {}
    /\ Of(wire, "content_chunk") # {}

\* C6 as claimed: calls announced with commands A, B, C and results that
\* embed no command: the tool_result events carry A, B, C in this order.
C6_FifoCorrelation ==
    (\E tool_name \in {ASH_SSH_EXECUTE, ASH_EXECUTE_COMMAND} :
         scenario = FIFO(tool_name)) /\ pos = Len(scenario)
        => LET results == SelectSeq(wire, LAMBDA ev : ev.type = "tool_result")
           IN  [k \in 1..Len(results) |-> results[k].command]
                   = <<Some(T("A", 1)), Some(T("B", 1)), Some(T("C", 1))>>

\* C7 as claimed: a structured result above the auto-summary threshold with
\* a summarizer that returns text is written as a tool_result with
\* summary: true, originalSize the raw size, and the summary as its stdout.
C7_SummaryMarked ==
    \A k \in Of(wire, "tool_result") :
        LET idx == wire[k].idx
            r == observed[idx].result
            raw_size == Utf8Len(r.output) + Utf8Len(r.error)
        IN  (/\ idx \in 1..Len(observed)
             /\ r.kind = "json"
             /\ raw_size > AUTO_SUMMARY_THRESHOLD
             /\ summarizer = "text")
                => /\ wire[k].summary
                   /\ wire[k].originalSize = raw_size
                   /\ Contains(wire[k].text, SUMMARY_REPLY)
                   /\ wire[k].text # r.output

\* C8 as claimed: the end-to-end scenario is written as tool_call (exec,
\* command "ls"), tool_result (success, stdout the file list),
\* content_chunk, done, [DONE] and nothing else.
C8_EndToEnd ==
    (scenario = E2E /\ outcome = "done" /\ pos = Len(scenario))
        => /\ [k \in 1..Len(wire) |-> wire[k].type]
                  = <<"tool_call", "tool_result", "content_chunk", "done",
                      "[DONE]">>
           /\ wire[1].name = EXEC
           /\ wire[1].command = Some(LS)
           /\ wire[2].success
           /\ wire[2].text = FILES
           /\ wire[3].text = FOUND

\* the frames that explain a turn that ended in the except handler or in an
\* early return: an error, or the summary written by the recovery
Explained ==
    \/ Of(wire, "error") # {}
    \/ \E k \in Of(wire, "tool_result") : wire[k].summary

\* C9: every stream ends with the sentinel.  When the runtime finished, the
\* `done` event is the frame before it.  When the turn ended in the except
\* handler or in the early return of the 5 MiB cap, no `done` is written and
\* the stream holds an `error` event or the recovery's summary tool_result.
C9_Ending ==
    pc = "closed" =>
        /\ wire[Len(wire)] = SENTINEL
        /\ outcome = "done" => /\ Of(wire, "done") = {Len(wire) - 1}
        /\ outcome \in {"exception", "returned"} =>
               /\ Of(wire, "done") = {}
               /\ Explained

\* a turn ended by the recovery: a summary, neither `error` nor `done`
C9_Witness ==
    /\ pc = "closed"
    /\ outcome = "exception"
    /\ Of(wire, "error") = {}
    /\ Of(wire, "done") = {}
    /\ \E k \in Of(wire, "tool_result") : wire[k].summary

\* C9 as claimed: every stream the producer ends by itself holds a `done`
\* event after its content, tool and error events.
C9_AlwaysDone ==
    (pc = "closed" /\ outcome # "disconnected")
        => /\ wire[Len(wire)] = SENTINEL
           /\ \E k \in Of(wire, "done") :
                  \A j \in Of(wire, "error") : j < k

\* C10 as claimed: after the error event of a chunker that gave up, no
\* content_chunk, tool_call, tool_result or tool_result_chunk is written.
C10_FloorAborts ==
    \A k \in Of(wire, "error") :
        (wire[k].text = ERR_TOO_LARGE /\ wire[k].idx # 0)
            => \A j \in (k + 1)..Len(wire) :
                   wire[j].type \notin {"content_chunk", "tool_call",
                                        "tool_result", "tool_result_chunk"}

\* C11 as claimed: a tool result whose content does not start with "{" is
\* written as a tool_result that carries the content: its text is the
\* content, or a prefix of the content marked truncated.
C11_OpaqueTextDelivered ==
    \A idx \in 1..Len(previous_response) :
        (/\ previous_response[idx].role \in {"tool", "function"}
         /\ previous_response[idx].result.kind = "text"
         /\ previous_response[idx].result.raw # <<>>)
            => \E k \in Of(wire, "tool_result") :
                   /\ wire[k].idx = idx
                   /\ wire[k].text # <<>>
                   /\ \/ wire[k].text = previous_response[idx].result.raw
                      \/ /\ wire[k].truncated
                         /\ StartsWith(previous_response[idx].result.raw,
                                       wire[k].text)

\* the frames the step wrote before the sentinel
Handled == SubSeq(wire', Len(wire) + 1, Len(wire') - 1)

\* the message of the exception names a payload-size error
NamesPayloadSize(error_msg) ==
    \/ Contains(error_msg, Str(<<"4", "1", "3">>))
    \/ Contains(Lower(error_msg), Str(<<"t", "o", "o", " ", "l", "a", "r",
                                        "g", "e">>))

\* the recovery delivered: a summary tool_result, its completion, no error
Recovered(frames) ==
    /\ Of(frames, "error") = {}
    /\ \E k \in Of(frames, "tool_result") :
           /\ frames[k].summary
           /\ frames[k].originalSize = last_tool_ctx.total_raw_size
    /\ Of(frames, "tool_result_complete") # {}

StreamFrames(idx, stream) ==
    SelectSeq(wire, LAMBDA ev : /\ ev.type = "tool_result_chunk"
                                /\ ev.idx = idx /\ ev.stream = stream)

\* the reply of the bridge that made the call of the tool fail, if one did
FaultOf(bridge) ==
    IF call_ash_ipc(bridge.list).raised THEN Some(bridge.list)
    ELSE IF /\ bridge.list.result.dict
            /\ Target(bridge.list.result.connections, CONN_1).some
            /\ call_ash_ipc(bridge.exec["ssh-exec-command"]).raised
         THEN Some(bridge.exec["ssh-exec-command"])
         ELSE None

\* text ends with suffix
EndsWith(text, suffix) ==
    /\ TLen(text) >= TLen(suffix)
    /\ Drop(text, TLen(text) - TLen(suffix)) = suffix

\* C13: the call of ash_execute_command never raises.  When the bridge
\* fails (no connection, a status other than 200, a reported failure, no
\* valid reply, the 300 s timeout) the call returns success false with an
\* error that ends with the bridge's text; once the runtime has yielded
\* that result the wire holds a tool_result with success false for it that
\* delivers the error as stderr, whole or in chunks, and the turn goes on.
C13_FaultsReturned ==
    /\ tool.phase # "raised"
    /\ (tool.phase = "returned" /\ FaultOf(tool.bridge).some) =>
           /\ ~tool.returned.success
           /\ tool.returned.output = <<>>
           /\ tool.returned.error # <<>>
           /\ EndsWith(tool.returned.error, FaultOf(tool.bridge).v.text)
           /\ pos >= 2 =>
                  /\ \E k \in Of(wire, "tool_result") :
                         /\ wire[k].idx = 2
                         /\ ~wire[k].success
                         /\ IF wire[k].chunked
                            THEN Joined(StreamFrames(2, "stderr"), 1,
                                        Len(StreamFrames(2, "stderr")))
                                     = tool.returned.error
                            ELSE wire[k].stderr = tool.returned.error
                  /\ outcome \in {"none", "done"} => Of(wire, "error") = {}
                  /\ outcome = "none" => pc = "running"
                  /\ pos = 3 => \E k \in Of(wire, "content_chunk") :
                                    wire[k].text = FOUND

\* the bridge timed out, the turn went on and finished with `done`
C13_Witness ==
    /\ tool.phase = "returned"
    /\ FaultOf(tool.bridge).some
    /\ FaultOf(tool.bridge).v.kind = "timeout"
    /\ outcome = "done"
    /\ pos = 3
    /\ \E k \in Of(wire, "tool_result") :
           ~wire[k].success /\ EndsWith(wire[k].stderr, READ_TIMED_OUT)
    /\ Of(wire, "done") # {}

\* the frames of a sequence that were made from a transcript message
Derived(frames) == SelectSeq(frames, LAMBDA ev : ev.idx # 0)

\* the message indices of the frames never decrease
InTranscriptOrder(frames) ==
    \A p \in 1..(Len(frames) - 1) : frames[p].idx <= frames[p + 1].idx

\* every snapshot keeps the messages of the one before, all but the last
\* of them unchanged
TailOnly(snapshots) ==
    \A k \in 1..(Len(snapshots) - 1) :
        /\ Len(snapshots[k + 1]) >= Len(snapshots[k])
        /\ \A i \in 1..(Len(snapshots[k]) - 1) :
               snapshots[k + 1][i] = snapshots[k][i]

\* C14: a step appends its frames to the wire and changes no frame written
\* before, so the frames of a snapshot come after all frames of the snapshots
\* before it; the frames one step writes are in the order of their message
\* indices; and when every snapshot changes nothing but the last message of
\* the snapshot before it, all frames of the turn are in that order.
C14_PassOrder ==
    /\ [][/\ Len(wire') >= Len(wire)
          /\ SubSeq(wire', 1, Len(wire)) = wire
          /\ InTranscriptOrder(
                 Derived(SubSeq(wire', Len(wire) + 1, Len(wire'))))]_vars
    /\ [](TailOnly(scenario) => InTranscriptOrder(Derived(wire)))

\* a finished turn of six messages, announced and answered over four passes
C14_Witness ==
    /\ outcome = "done"
    /\ TailOnly(scenario)
    /\ pos = 4
    /\ {wire[k].idx : k \in 1..Len(wire)} = 0..6
    /\ InTranscriptOrder(Derived(wire))

\* C14 as claimed: in every turn a frame made from the message at index j
\* is never written before a frame made from a message at an index i < j.
C14_TranscriptOrder == InTranscriptOrder(Derived(wire))

\* C15 as claimed: once the transport has closed the producer at a write,
\* the producer requests no snapshot, calls no summarizer and yields no
\* further frame: the last frame on the wire is the one of that write.
C15_AbortsAtOnce ==
    [][(outcome = "none" /\ outcome' = "disconnected") =>
          /\ pos' = pos
          /\ \E trace \in NextTraces :
                 \E n \in 1..Len(trace) :
                     /\ IsFrame(trace[n])
                     /\ wire' = wire \o Frames(SubSeq(trace, 1, n))
                     /\ summary_calls' =
                            summary_calls + Calls(SubSeq(trace, 1, n))]_vars

RECURSIVE AlonePasses(_, _, _, _, _)
\* a turn run alone, after the pass k that ended in the state after
AloneNext(snapshots, k, n, after, out) ==
    IF after.returned \/ after.raised.some
    THEN [ctx |-> after.ctx, wire |-> Finally(out \o Frames(PassTrace(after)))]
    ELSE AlonePasses(snapshots, k + 1, n,
                     PassStart(after.map, after.queue, after.ctx,
                               snapshots[k]),
                     out \o Frames(after.trace))

\* a turn run alone over the snapshots k..n from the state start, out written
AlonePasses(snapshots, k, n, start, out) ==
    IF k > n THEN [ctx |-> start.ctx, wire |-> out]
    ELSE AloneNext(snapshots, k, n, ProcMessages(start, snapshots[k], 1),
                   out)

\* the frame sequences of a turn that ended as `how` after the passes r
AloneEnds(r, how) ==
    CASE how = "done" -> {Finally(r.wire \o Frames(DoneTrace))}
      [] how = "exception" ->
            {Finally(r.wire \o Frames(HandlerTrace(error_msg, r.ctx))) :
                error_msg \in Exceptions}
      [] OTHER -> {r.wire}

\* the frame sequences a turn writes alone for n snapshots and the ending
Alone(snapshots, n, how) ==
    AloneEnds(AlonePasses(snapshots, 1, n,
                          PassStart(<<>>, <<>>, NoCtx, <<>>), <<>>), how)

\* the cells of generate() in an activation
Cells(a) ==
    <<a.previous_response, a.assistant_content_map, a.tool_command_queue,
      a.last_tool_ctx>>

Attempting == ck.ret = "running" /\ ck.i < TLen(ck.text)

\* C17: _emit, as the chunker calls it with a chunk payload, appends the
\* payload's frame whole and returns True (the chunker advances) exactly
\* when the encoded frame is shorter than the ceiling; otherwise it returns
\* False and writes no part of the payload, at the first call and at none
\* after (the only frame a rejecting iteration can write is the chunker's own
\* error event).
C17_EmitBelowCeiling ==
    [][Attempting =>
          IF PayloadAt(ck).size < ceiling
          THEN /\ ck'.out = Append(ck.out, PayloadAt(ck))
               /\ ck'.i > ck.i
          ELSE /\ ck'.i = ck.i
               /\ ck'.chunk_index = ck.chunk_index
               /\ \/ ck'.out = ck.out
                  \/ /\ ck'.ret = "false"
                     /\ ck'.out = Append(ck.out, EvError(ERR_TOO_LARGE,
                                                          ck.base_ev.idx))
               /\ \A k \in 1..Len(ck'.out) :
                      ck'.out[k].type = ck.base_ev.type
                          => ck'.out[k].size < ceiling]_vars

\* a first payload of exactly the ceiling's size was rejected and nothing of
\* it was written
C17_Witness ==
    /\ pc = "chunker"
    /\ ck.i = 0
    /\ ck.out = <<>>
    /\ ck.chunk_size = Shrink(ck.initial)
    /\ ChunkPayload(ck, Slice(ck.text, 0, ck.initial)).size = ceiling

\* C18: at every point of a run of the adaptive chunker the texts of the
\* chunks written so far, joined in the order written, are text[0:i] for the
\* cursor i, and their indices are 0, 1, 2, ... up to the next index to
\* give; an attempt that is rejected moves neither the cursor nor the index.
C18_ContiguousChunks ==
    /\ [](pc = "chunker" =>
            /\ ChunksJoined = Take(ck.text, ck.i)
            /\ Len(ChunkFrames) = ck.chunk_index
            /\ \A k \in 1..Len(ChunkFrames) : ChunkFrames[k].index = k - 1)
    /\ [][(Attempting /\ PayloadAt(ck).size >= ceiling) =>
             /\ ck'.i = ck.i
             /\ ck'.chunk_index = ck.chunk_index
             /\ SelectSeq(ck'.out, LAMBDA ev : ev.type = ck.base_ev.type)
                    = ChunkFrames]_vars

\* in the middle of a run: two chunks are written, a third attempt was
\* rejected at a cursor inside the text, and the run goes on
C18_Witness ==
    /\ pc = "chunker"
    /\ ck.ret = "running"
    /\ Len(ChunkFrames) >= 2
    /\ ck.i < TLen(ck.text)
    /\ ck.chunk_size < ck.initial
    /\ ChunksJoined = Take(ck.text, ck.i)

\* C19: a rejected chunk makes the chunker replace the chunk size by
\* floor(0.7 x size) and try again from the same cursor; an accepted chunk
\* leaves the size as it is, so the size never grows within one text; the
\* chunker gives up exactly when the size after a shrink is below 5000.
C19_ShrinkAndRetry ==
    /\ [](pc = "chunker" =>
            /\ ck.chunk_size <= ck.initial
            /\ ck.ret = "false" => ck.chunk_size < 5000
            /\ ck.ret # "false" => ck.chunk_size >= 5000)
    /\ [][Attempting =>
             IF PayloadAt(ck).size >= ceiling
             THEN /\ 10 * ck'.chunk_size <= 7 * ck.chunk_size
                  /\ 7 * ck.chunk_size < 10 * (ck'.chunk_size + 1)
                  /\ ck'.i = ck.i
                  /\ ck'.ret = (IF ck'.chunk_size < 5000
                                THEN "false" ELSE "running")
             ELSE /\ ck'.chunk_size = ck.chunk_size
                  /\ ck'.ret = "running"]_vars

\* a run that shrank twice and then wrote a chunk at the reduced size from
\* the very cursor of the rejected attempts
C19_Witness ==
    /\ pc = "chunker"
    /\ ck.ret = "running"
    /\ ck.chunk_size = (7 * ((7 * ck.initial) \div 10)) \div 10
    /\ Len(ChunkFrames) = 1
    /\ TLen(ChunkFrames[1].text) = ck.chunk_size
    /\ ck.i = ck.chunk_size

\* the content the pass of this step observes for the message at idx
Seen(idx) ==
    IF observed'[idx].content.some THEN observed'[idx].content.v ELSE <<>>

\* the frames this step writes
Written == SubSeq(wire', Len(wire) + 1, Len(wire'))

\* the content_chunk frames this step writes for the message at idx
WrittenFor(idx) ==
    SelectSeq(Written, LAMBDA ev : ev.type = "content_chunk" /\ ev.idx = idx)

\* the step is a pass over a snapshot that reaches the assistant message at
\* idx, and the content it observes there differs from the content recorded
\* for idx and does not start with it
Discontinuity(idx) ==
    /\ pc = "running"
    /\ pos' = pos + 1 \/ replays' = replays + 1
    /\ observed'[idx].role = "assistant"
    /\ MapGet(assistant_content_map, idx) # <<>>
    /\ Seen(idx) # MapGet(assistant_content_map, idx)
    /\ ~StartsWith(Seen(idx), MapGet(assistant_content_map, idx))
    /\ \A j \in 1..(idx - 1) :
           Utf8Len(Seen(j)) <= MAX_ASSISTANT_CONTENT_SIZE

\* the pass wrote the whole of the observed content for idx and recorded it
WholeDelivered(idx) ==
    /\ Joined(WrittenFor(idx), 1, Len(WrittenFor(idx))) = Seen(idx)
    /\ MapGet(assistant_content_map', idx) = Seen(idx)

\* the pass wrote an error event for idx and left the record for idx alone
Refused(idx, error_msg) ==
    /\ \E k \in 1..Len(Written) : Written[k] = EvError(error_msg, idx)
    /\ MapGet(assistant_content_map', idx)
           = MapGet(assistant_content_map, idx)

RECURSIVE Announced(_, _)
Announced(frames, k) ==
    IF k > Len(frames) THEN <<>>
    ELSE IF ParseArgs(frames[k].args).command.some
         THEN <<ParseArgs(frames[k].args).command.v>>
                  \o Announced(frames, k + 1)
         ELSE Announced(frames, k + 1)

\* C21 as claimed: whenever tool calls whose arguments contain a command are
\* announced, whatever the tool's name, every command is carried in the
\* `command` field of its tool_call event and appended to the pending queue.
C21_CommandEnqueued ==
    [][(/\ pc = "running"
        /\ pos' = pos + 1
        /\ Written # <<>>
        /\ \A k \in 1..Len(Written) : Written[k].type = "tool_call")
          => /\ \A k \in 1..Len(Written) :
                    ParseArgs(Written[k].args).command.some
                        => Written[k].command
                               = ParseArgs(Written[k].args).command
             /\ tool_command_queue'
                    = tool_command_queue \o Announced(Written, 1)]_vars

\* the step is a pass over a snapshot whose only new message is a tool
\* result, at the index idx
ResultObserved(idx) ==
    /\ pc = "running"
    /\ pos' = pos + 1
    /\ idx = Len(observed')
    /\ Len(previous_response) = idx - 1
    /\ observed'[idx].role \in {"tool", "function"}

\* the tool_result events this step writes for the message at idx
ResultsWritten(idx) ==
    SelectSeq(Written, LAMBDA ev : ev.type = "tool_result" /\ ev.idx = idx)

\* C22: the tool_result event written for a structured tool result carries
\* the command the record embeds when that is not empty, and otherwise the
\* command at the head of the queue (none when the queue is empty); in both
\* cases the result takes the oldest entry off the queue.
C22_FinalCommand ==
    [][\A idx \in 1..Len(observed') :
          (ResultObserved(idx) /\ observed'[idx].result.kind = "json") =>
              /\ \A k \in 1..Len(ResultsWritten(idx)) :
                     ResultsWritten(idx)[k].command =
                         IF /\ observed'[idx].result.command.some
                            /\ observed'[idx].result.command.v # <<>>
                         THEN observed'[idx].result.command
                         ELSE IF tool_command_queue # <<>>
                         THEN Some(Head(tool_command_queue))
                         ELSE None
              /\ tool_command_queue' =
                     IF tool_command_queue = <<>> THEN <<>>
                     ELSE Tail(tool_command_queue)]_vars

\* the commands of the tool_result events on the wire
ResultCommands ==
    LET results == SelectSeq(wire, LAMBDA ev : ev.type = "tool_result")
    IN  [k \in 1..Len(results) |-> results[k].command]

\* A, B, C were queued; the results carried the embedded "Z", then B and C
\* from the queue, and the queue is used up
C22_Witness ==
    /\ scenario = EMBED
    /\ pos = Len(scenario)
    /\ ResultCommands = <<Some(T("Z", 1)), Some(T("B", 1)), Some(T("C", 1))>>
    /\ tool_command_queue = <<>>

\* C23 as claimed: a tool result observed while the queue is empty gets the
\* command none, leaves the queue empty, causes no error event, and is still
\* written as a tool_result event.
C23_EmptyQueueTolerated ==
    [][\A idx \in 1..Len(observed') :
          (ResultObserved(idx) /\ tool_command_queue = <<>>) =>
              /\ tool_command_queue' = <<>>
              /\ ResultsWritten(idx) # <<>>
              /\ \A k \in 1..Len(ResultsWritten(idx)) :
                     ResultsWritten(idx)[k].command =
                         IF Truthy(observed'[idx].result.command)
                         THEN observed'[idx].result.command ELSE None
              /\ \A k \in 1..Len(Written) :
                     Written[k].type = "error"
                         => Written[k].text = ERR_TOO_LARGE]_vars

\* the tool_result_chunk events this step writes for one stream of the
\* result at idx
ChunksWritten(idx, stream) ==
    SelectSeq(Written, LAMBDA ev : /\ ev.type = "tool_result_chunk"
                                   /\ ev.idx = idx /\ ev.stream = stream)

\* the text the chunks of a sequence of frames carry
JoinedAll(frames) == Joined(frames, 1, Len(frames))

\* the bytes of stdout and stderr of the result observed at idx
RawSize(idx) ==
    Utf8Len(observed'[idx].result.output)
        + Utf8Len(observed'[idx].result.error)

\* C24: when a structured result is above the auto-summary threshold and the
\* summarizer raises or returns nothing, the turn goes on: the summarizer was
\* called once, the result is written in chunked form (the metadata event,
\* then chunks that carry the original stdout and stderr, then
\* tool_result_complete), no error event is written, and generate() stays in
\* its loop with the snapshot recorded as processed.
C24_SummaryFallthrough ==
    [][\A idx \in 1..Len(observed') :
          (/\ ResultObserved(idx)
           /\ observed'[idx].result.kind = "json"
           /\ Encodable(observed'[idx].result.output)
           /\ Encodable(observed'[idx].result.error)
           /\ RawSize(idx) > AUTO_SUMMARY_THRESHOLD
           /\ summarizer \in {"raise", "empty"}) =>
              /\ pc' = "running"
              /\ outcome' = "none"
              /\ previous_response' = observed'
              /\ summary_calls' = summary_calls + 1
              /\ Len(ResultsWritten(idx)) = 1
              /\ ResultsWritten(idx)[1].chunked
              /\ ResultsWritten(idx)[1].total_size = RawSize(idx)
              /\ JoinedAll(ChunksWritten(idx, "stdout"))
                     = observed'[idx].result.output
              /\ JoinedAll(ChunksWritten(idx, "stderr"))
                     = observed'[idx].result.error
              /\ Written[Len(Written)].type = "tool_result_complete"
              /\ \A k \in 1..Len(Written) : Written[k].type # "error"]_vars

\* a summarizer that raised on 6 MiB of output: the output went out in
\* chunks and the assistant message of the next snapshot followed
C24_Witness ==
    /\ summarizer = "raise"
    /\ summary_calls = 1
    /\ pos = Len(scenario)
    /\ pc = "running"
    /\ \E k \in Of(wire, "tool_result_complete") :
           /\ k + 1 = Len(wire)
           /\ wire[k + 1].type = "content_chunk"
           /\ Utf8Len(JoinedAll(StreamFrames(wire[k].idx, "stdout")))
                  > AUTO_SUMMARY_THRESHOLD
           /\ JoinedAll(StreamFrames(wire[k].idx, "stderr")) = T("e", 10)

\* the stdout of the result observed at idx when it is delivered: the
\* annotated summary when the result was above the auto-summary threshold
\* and the summarizer answered, the output itself otherwise
DeliveredStdout(idx, reply) ==
    IF /\ RawSize(idx) > AUTO_SUMMARY_THRESHOLD
       /\ ~reply.raised
       /\ reply.text # <<>>
    THEN AutoSummarized(RawSize(idx), reply.text)
    ELSE observed'[idx].result.output

\* the structured result of the message at idx with the given stdout
WholeResult(idx, stdout) ==
    EvToolResult(observed'[idx].name.v,
                 IF Truthy(observed'[idx].result.command)
                 THEN observed'[idx].result.command
                 ELSE IF tool_command_queue # <<>>
                 THEN Some(Head(tool_command_queue)) ELSE None,
                 observed'[idx].result.success,
                 observed'[idx].result.exitCode,
                 stdout, observed'[idx].result.error, idx)

\* chunked delivery was used for the result at idx: its metadata event, a
\* chunk of it or its completion event was written
ChunkedUsed(idx) ==
    \E k \in 1..Len(Written) :
        /\ Written[k].idx = idx
        /\ \/ Written[k].type = "tool_result" /\ Written[k].chunked
           \/ Written[k].type = "tool_result_chunk"
           \/ Written[k].type = "tool_result_complete"

\* what C25 says of the result at idx, delivered with the given stdout
SizeDecision(idx, stdout, raw) ==
    /\ IF /\ raw + 500 + (2 * raw) \div 10 < MAX_CHUNK_SIZE
          /\ WholeResult(idx, stdout).size < MAX_CHUNK_SIZE
       THEN /\ ResultsWritten(idx) = <<WholeResult(idx, stdout)>>
            /\ ~ChunkedUsed(idx)
       ELSE /\ ChunkedUsed(idx)
            /\ \A k \in 1..Len(ResultsWritten(idx)) :
                   ResultsWritten(idx)[k].chunked
    /\ \A k \in 1..Len(ResultsWritten(idx)) :
           ResultsWritten(idx)[k].chunked =>
               /\ ResultsWritten(idx)[k].text = <<>>
               /\ ResultsWritten(idx)[k].stderr = <<>>
               /\ ResultsWritten(idx)[k].total_size = raw

\* C25: for every structured tool result, when the estimate (raw size + 20%
\* + 500) is at or above the ceiling chunked delivery is used and the whole
\* result is not written, whether or not its frame would fit; otherwise the
\* whole result is written when its frame fits, and chunked delivery is used
\* only when that frame is rejected.  The whole result and the chunked form
\* are never both written.
C25_EstimateThenEmit ==
    [][\A idx \in 1..Len(observed') :
          (/\ ResultObserved(idx)
           /\ observed'[idx].result.kind = "json"
           /\ Encodable(observed'[idx].result.output)
           /\ Encodable(observed'[idx].result.error)) =>
              SizeDecision(
                  idx,
                  DeliveredStdout(idx, _generate_summary_text(
                                           <<>>, <<>>, <<>>, 0)),
                  Utf8Len(DeliveredStdout(idx, _generate_summary_text(
                                                   <<>>, <<>>, <<>>, 0)))
                      + Utf8Len(observed'[idx].result.error))]_vars

\* a result of 27000 bytes, whose frame would fit, went out in chunked form
\* because its estimate reaches the ceiling
C25_Witness ==
    /\ pos = 2
    /\ pc = "running"
    /\ Len(observed) = 2
    /\ observed[2].result.output = T("a", NearLen)
    /\ EvToolResult(ASH_EXECUTE_COMMAND, Some(LS), TRUE, 0, T("a", NearLen),
                    <<>>, 2).size < MAX_CHUNK_SIZE
    /\ [k \in 1..Len(wire) |-> wire[k].type]
           = <<"tool_call", "tool_result", "tool_result_chunk",
               "tool_result_complete">>
    /\ wire[2].chunked

\* the positions on the wire of the chunks of one stream of the result at idx
ChunksAt(idx, stream) ==
    {k \in Of(wire, "tool_result_chunk") :
        wire[k].idx = idx /\ wire[k].stream = stream}

\* the transcript indices of the results that have chunks on the wire
ChunkedResults == {wire[k].idx : k \in Of(wire, "tool_result_chunk")}

\* C26 as claimed: in chunked delivery one metadata tool_result event
\* (chunked: true, stdout and stderr empty, total_size the bytes to be
\* chunked) is written before any chunk of the result; all chunks of stdout
\* precede all chunks of stderr and each stream is numbered from 0; and
\* tool_result_complete follows the last chunk exactly when both chunkers
\* succeeded.
C26_MetadataThenChunks ==
    outcome # "disconnected" =>
        \A idx \in ChunkedResults :
            LET chunks == ChunksAt(idx, "stdout") \cup ChunksAt(idx, "stderr")
                metas == {m \in Of(wire, "tool_result") :
                             wire[m].idx = idx /\ wire[m].chunked}
                completes == {m \in Of(wire, "tool_result_complete") :
                                 wire[m].idx = idx}
                errors == {m \in Of(wire, "error") : wire[m].idx = idx}
            IN  /\ \E m \in metas :
                       /\ metas = {m}
                       /\ \A k \in chunks : m < k
                       /\ wire[m].text = <<>>
                       /\ wire[m].stderr = <<>>
                       /\ errors = {} =>
                              wire[m].total_size =
                                  Utf8Len(JoinedAll(StreamFrames(idx,
                                                                 "stdout")))
                                  + Utf8Len(JoinedAll(StreamFrames(idx,
                                                                   "stderr")))
                /\ \A k \in ChunksAt(idx, "stdout") :
                       \A j \in ChunksAt(idx, "stderr") : k < j
                /\ \A stream \in {"stdout", "stderr"} :
                       \A k \in 1..Len(StreamFrames(idx, stream)) :
                           StreamFrames(idx, stream)[k].index = k - 1
                /\ (errors = {}) <=>
                       \E m \in completes :
                           /\ completes = {m}
                           /\ \A k \in chunks : k < m

\* C27 as claimed: a tool result whose content cannot be parsed is written
\* as at least one tool_result event, carrying the whole raw content or,
\* marked truncated, a prefix of it; the result is never dropped.
C27_FallbackNeverDrops ==
    [][\A idx \in 1..Len(observed') :
          (/\ ResultObserved(idx)
           /\ observed'[idx].result.kind = "malformed"
           /\ Encodable(observed'[idx].result.raw)
           /\ outcome' # "disconnected") =>
              /\ ResultsWritten(idx) # <<>>
              /\ \A k \in 1..Len(ResultsWritten(idx)) :
                     IF ResultsWritten(idx)[k].truncated
                     THEN ResultsWritten(idx)[k].text =
                              Take(observed'[idx].result.raw, ceiling - 500)
                     ELSE ResultsWritten(idx)[k].text =
                              observed'[idx].result.raw]_vars

\* C28 as claimed: observing a tool result never ends the turn, whatever
\* its content: the step handles every exception itself, the turn keeps
\* running and the cursor advances to the snapshot observed.
C28_ResultNeverFatal ==
    [][\A idx \in 1..Len(observed') :
          (ResultObserved(idx) /\ outcome' # "disconnected") =>
              /\ pc' = "running"
              /\ outcome' = "none"
              /\ previous_response' = observed'
              /\ Written # <<>> => Written[Len(Written)] # SENTINEL]_vars

\* the indices of the tool results the turn has observed
Processed ==
    {k \in 1..Len(previous_response) :
         previous_response[k].role \in {"tool", "function"}}

\* the tool result observed last
LatestResult ==
    previous_response[CHOOSE k \in Processed : \A j \in Processed : j <= k]

\* C29 as claimed: last_tool_ctx is empty until the turn observes a tool
\* result, and from then on it describes the result observed last: its
\* name, the bytes of its stdout and stderr, and their heads of at most
\* 10000 and 2000 characters.
C29_CtxIsLatest ==
    /\ pos = 0 => last_tool_ctx = NoCtx
    /\ (pc = "running" /\ Processed = {}) => last_tool_ctx = NoCtx
    /\ (pc = "running" /\ Processed # {}) =>
           /\ last_tool_ctx.set
           /\ last_tool_ctx.name = LatestResult.name.v
           /\ last_tool_ctx.total_raw_size =
                  Utf8Len(LatestResult.result.output)
                      + Utf8Len(LatestResult.result.error)
           /\ last_tool_ctx.stdout_head =
                  Take(LatestResult.result.output, 10000)
           /\ last_tool_ctx.stderr_head =
                  Take(LatestResult.result.error, 2000)

\* C30 as claimed: once the turn has called _generate_summary_text, the
\* call has not raised, whatever the language model did: a failure of the
\* model gives the empty string, and a text that is not empty is the
\* content of the last assistant message of the reply.
C30_SummarizerNeverRaises ==
    summary_calls > 0 =>
        LET reply == _generate_summary_text(last_tool_ctx.command,
                                            last_tool_ctx.stdout_head,
                                            last_tool_ctx.stderr_head,
                                            last_tool_ctx.total_raw_size)
        IN  /\ ~reply.raised
            /\ reply.text # <<>> =>
                   reply.text \in {SUMMARY_REPLY, BIG_SUMMARY_REPLY}

\* the bridge reply with a denial replaced by the generic fault
Undenied(reply) ==
    IF reply.text = DENIED THEN [reply EXCEPT !.text = GENERIC] ELSE reply

\* the bridge that fails as bridge does, with a generic fault for a denial
TwinBridge(bridge) ==
    [list |-> Undenied(bridge.list),
     exec |-> [ch \in Channels |-> Undenied(bridge.exec[ch])]]

\* what the call of the tool returns against the twin bridge
TwinReturn ==
    UnifiedExecuteTool_call(tool.connection_id, tool.command,
                            TwinBridge(tool.bridge))

\* a frame without its texts
Shape(ev) == [ev EXCEPT !.text = <<>>, !.stderr = <<>>]

\* two frame sequences are equal up to the texts the frames carry
SameShape(a, b) ==
    /\ Len(a) = Len(b)
    /\ \A k \in 1..Len(a) : Shape(a[k]) = Shape(b[k])

\* what C31 says of the record returned for a denial and of the record twin
\* returned for the generic fault
SameRecord(twin) ==
    /\ IsDenial(tool.returned.error)
    /\ ~IsDenial(twin.error)
    /\ tool.returned.log = "info"
    /\ twin.log = "error"
    /\ tool.returned = [twin EXCEPT !.error = tool.returned.error,
                                    !.log = "info"]
    /\ ~tool.returned.success
    /\ TLen(tool.returned.error) = TLen(twin.error)

\* the frames written are, but for their texts, frames the turn writes over
\* the given snapshots
SameWire(snapshots) ==
    \E twin \in Alone(snapshots, pos, outcome) : SameShape(wire, twin)

\* the call of the tool has returned and the bridge failed with a denial
Denied ==
    /\ tool.phase = "returned"
    /\ \E fault \in {FaultOf(tool.bridge)} :
           /\ fault.some
           /\ fault.v.text = DENIED
           /\ fault.v.kind \in {"failed", "status", "not_json"}

\* C31: when the bridge fails with a denial, the call of the tool returns
\* the record it returns for a generic fault of the same length, but for
\* the text of the error and the level of the log entry (info, not error);
\* and the frames of every turn that ended are, but for their texts, the
\* frames the turn writes when the fault is the generic one.  (The record
\* is compared where the call has just returned; the frames of a turn that
\* is running are a prefix of those of the turn ended.)
C31_DenialSameWire ==
    /\ (Denied /\ pos = 1) => SameRecord(TwinReturn)
    /\ (Denied /\ outcome \in {"done", "exception"}) =>
           \E snapshots \in {<<<<A_EXECUTE>>>> \o AfterTool(TwinReturn)} :
               SameWire(snapshots)

\* a denial came back as a failed tool result and the turn finished
C31_Witness ==
    /\ tool.phase = "returned"
    /\ FaultOf(tool.bridge).some
    /\ FaultOf(tool.bridge).v.text = DENIED
    /\ FaultOf(tool.bridge).v.kind = "failed"
    /\ tool.returned.log = "info"
    /\ outcome = "done"
    /\ pos = 3
    /\ \E k \in Of(wire, "tool_result") :
           /\ ~wire[k].success
           /\ EndsWith(wire[k].stderr, DENIED)

\* the step is a pass over a snapshot the runtime yields
Yielded == pos' # pos \/ replays' # replays

C33_ChunkerTerminates ==
    /\ [][Attempting =>
             \/ /\ ck'.i >= ck.i + 1
                /\ ck'.i <= TLen(ck.text)
                /\ ck'.chunk_size = ck.chunk_size
             \/ /\ ck'.i = ck.i
                /\ ck'.chunk_size < ck.chunk_size
                /\ ck'.chunk_size >= 0]_vars
    /\ [](ck.ret = "running" => ck.chunk_size >= MIN_CHUNK_SIZE)
    /\ <>(ck.ret \in {"true", "false"})

\* a run that wrote chunks, then met a chunk it had to shrink for, and ended
\* with failure at the floor
C33_Witness ==
    /\ pc = "chunker"
    /\ ck.ret = "false"
    /\ ck.i > 0
    /\ ck.i < TLen(ck.text)
    /\ ck.chunk_size < MIN_CHUNK_SIZE
    /\ Len(ChunkFrames) >= 1

\* the types of the events by which a tool result is delivered
ResultTypes == {"tool_result", "tool_result_chunk", "tool_result_complete"}

\* none of the first n snapshots is shorter than the one before it
NonShrinking(snapshots, n) ==
    \A k \in 1..(n - 1) : Len(snapshots[k + 1]) >= Len(snapshots[k])

\* the frames of a sequence of the given type made from the message at idx
FramesOf(frames, type, idx) ==
    {k \in 1..Len(frames) : frames[k].type = type /\ frames[k].idx = idx}

HalfLen == 20000

\* assistant content whose second half does not fit a chunk under
\* MidCeiling, then extended
MIXED == << <<AssistantMsg(Cat(T("a", HalfLen), T(CTRL, HalfLen)))>>,
            <<AssistantMsg(Cat(Cat(T("a", HalfLen), T(CTRL, HalfLen)),
                               T("b", 10)))>> >>

ContentScenarios ==
    { STREAM, BIGCONTENT("a"), BIGCONTENT(CTRL), MIXED, OVERSIZE, REPLACE,
      REVISED }

InitCeiling ==
    /\ pc = "running"
    /\ ceiling \in Ceilings
    /\ previous_response = <<>>
    /\ assistant_content_map = <<>>
    /\ tool_command_queue = <<>>
    /\ last_tool_ctx = NoCtx
    /\ wire = <<>>
    /\ scenario \in ContentScenarios
    /\ pos = 0
    /\ replays = 0
    /\ observed = <<>>
    /\ summarizer \in Summarizers
    /\ summary_calls = 0
    /\ outcome = "none"
    /\ prefix_ok = TRUE
    /\ ck = NoChunker
    /\ tool = NoTool
    /\ suspended = NoTurn
    /\ request = NoRequest

SpecCeiling == InitCeiling /\ [][Next]_vars

\* the text of the content_chunk frames this step writes for the message at
\* idx, in the order written
DeltaWritten(idx) ==
    CatAll([k \in 1..Len(WrittenFor(idx)) |-> WrittenFor(idx)[k].text])

\* the delta of the content this step observes at idx against the content
\* recorded for idx before the step
DeltaDue(idx) == ContentToSend(MapGet(assistant_content_map, idx), Seen(idx))

Carrying(frames, text) ==
    {k \in 1..Len(frames) :
         frames[k].type = "content_chunk" /\ frames[k].text = text}

DoneWritten == Of(Written, "done")

\* C36: a `done` event is written only by the step that follows the
\* exhaustion of the runtime's snapshot sequence, never by a pass over a
\* snapshot, by the except handler or by the early return of the 5 MiB cap;
\* that step writes it once, with the sentinel right behind it.  A turn the
\* producer ended by itself therefore holds a `done` event if and only if it
\* ended because the runtime was exhausted, and no turn holds two.
C36_DoneIffExhausted ==
    /\ [][DoneWritten # {} =>
              /\ ~Yielded
              /\ pc = "running" /\ pc' = "closed"
              /\ outcome' \in {"done", "disconnected"}
              /\ Written = Finally(DoneTrace)
              /\ Of(wire, "done") = {}]_vars
    /\ [][(pc = "running" /\ outcome' = "done") => DoneWritten # {}]_vars
    /\ [](pc = "closed" =>
              /\ Cardinality(Of(wire, "done")) <= 1
              /\ \A k \in Of(wire, "done") :
                     k = Len(wire) - 1 /\ wire[k + 1] = SENTINEL
              /\ outcome # "disconnected" =>
                     (Of(wire, "done") # {} <=> outcome = "done"))

\* the runtime was exhausted after a turn whose chunker had given up: the
\* `error` event of that failure is on the wire, and `done` is the frame
\* before the sentinel
C36_Witness ==
    /\ pc = "closed"
    /\ outcome = "done"
    /\ pos = Len(scenario)
    /\ Of(wire, "error") # {}
    /\ Of(wire, "done") = {Len(wire) - 1}
    /\ wire[Len(wire)] = SENTINEL

\* the assistant messages of the snapshot this step observes that have a
\* new non-empty delta and a content of more than 5 MiB
OverCap ==
    {idx \in 1..Len(observed') :
         /\ observed'[idx].role = "assistant"
         /\ Utf8Len(Seen(idx)) > MAX_ASSISTANT_CONTENT_SIZE
         /\ DeltaDue(idx) # <<>>}

\* no message before idx is a tool result the pass would deliver
NoResultBefore(idx) ==
    \A j \in 1..(idx - 1) :
        observed'[j].role \in {"tool", "function"} =>
            ~IsNewMessage(j, previous_response)

\* C37: a pass that comes to an assistant message with a new non-empty
\* delta and more than 5 MiB of content writes one `error` event for it and
\* the sentinel and nothing after: no content_chunk for that message, no
\* frame for a later message of the snapshot, no `done`; the content
\* recorded for the message stays, the turn is closed, and a closed turn
\* takes no further step, so no further snapshot is pulled.
C37_CapEndsTurn ==
    /\ [][(Yielded /\ OverCap # {}) =>
              \E idx \in {CHOOSE m \in OverCap : \A n \in OverCap : m <= n} :
                  NoResultBefore(idx) =>
                      /\ pc' = "closed" /\ outcome' = "returned"
                      /\ Len(Written) >= 2
                      /\ Written[Len(Written) - 1] =
                             EvError(ERR_ASSISTANT_TOO_LONG, idx)
                      /\ Written[Len(Written)] = SENTINEL
                      /\ Of(Written, "error") = {Len(Written) - 1}
                      /\ Of(Written, "done") = {}
                      /\ WrittenFor(idx) = <<>>
                      /\ \A k \in 1..Len(Written) : Written[k].idx <= idx
                      /\ MapGet(assistant_content_map', idx) =
                             MapGet(assistant_content_map, idx)
                      /\ previous_response' = previous_response]_vars
    /\ [][pc = "running"]_vars
    /\ [](outcome = "returned" =>
              /\ pc = "closed"
              /\ Len(wire) >= 2
              /\ wire[Len(wire)] = SENTINEL
              /\ wire[Len(wire) - 1].type = "error"
              /\ wire[Len(wire) - 1].text = ERR_ASSISTANT_TOO_LONG
              /\ Of(wire, "done") = {})

\* the second snapshot of OVERSIZE held more than 5 MiB at index 1 and a
\* further assistant message behind it: the wire holds the first delta, the
\* `error` event and the sentinel, and nothing of the further message
C37_Witness ==
    /\ scenario = OVERSIZE
    /\ pos = 2
    /\ outcome = "returned"
    /\ Len(observed) = 2
    /\ Len(wire) = 3
    /\ wire[1].type = "content_chunk" /\ wire[1].text = T("a", 10)
    /\ wire[2] = EvError(ERR_ASSISTANT_TOO_LONG, 1)
    /\ wire[3] = SENTINEL
    /\ assistant_content_map = <<T("a", 10)>>

\* the step ends the turn in the except handler
Excepting == outcome = "none" /\ outcome' = "exception"

\* the frames the except handler writes in this step: all the step writes
\* before the sentinel, less the frames of the pass the exception left
HandlerFrames ==
    IF Yielded
    THEN SubSeq(Handled, Len(Frames(ProcSnapshot(observed').trace)) + 1,
                Len(Handled))
    ELSE Handled

\* the messages of the exceptions that can have ended this step
Raised ==
    IF Yielded THEN {ProcSnapshot(observed').raised.v} ELSE Exceptions

\* the handler announced a summarization
Attempted(h) == h # <<>> /\ h[1] = EvMessage(MSG_RETRYING, 0)

\* the four frames of a recovery for the context ctx
RecoveryFrames(h, ctx) ==
    /\ Len(h) = 4
    /\ h[1] = EvMessage(MSG_RETRYING, 0)
    /\ h[2].type = "tool_result"
    /\ h[2].summary
    /\ h[2].originalSize = ctx.total_raw_size
    /\ ~h[2].success
    /\ h[2].name = (IF ctx.name # <<>> THEN ctx.name ELSE UNKNOWN)
    /\ h[2].size < ceiling
    /\ h[3].type = "tool_result_complete"
    /\ h[3].name = h[2].name
    /\ h[4] = EvMessage(MSG_STORED, 0)

\* the summary tool_result of the context ctx, made of the text the
\* summarizer returns
SummaryFrame(ctx) ==
    EvSummarized(IF ctx.name # <<>> THEN ctx.name ELSE UNKNOWN,
                 OrElse(ctx.command, Some(UNKNOWN)).v,
                 RecoverySummary(ctx.total_raw_size,
                     _generate_summary_text(
                         OrElse(ctx.command, Some(UNKNOWN)).v,
                         ctx.stdout_head, ctx.stderr_head,
                         ctx.total_raw_size).text),
                 ctx.total_raw_size)

\* C38: the except handler announces and attempts a summarization exactly
\* when the message of the exception names a payload-size error and the
\* Last-Tool Context of the turn records more than 10 KiB of raw output.
\* When the summarizer then returns a text and the frame of the summary is
\* shorter than the ceiling, the handler writes the announcement, the
\* summary tool_result (summary true, originalSize the recorded raw size,
\* success false), tool_result_complete and a system message, and neither
\* `error` nor `done`; in every other case it writes exactly one `error`
\* event, as its last frame, and no tool_result.  The sentinel follows the
\* handler's frames.
C38_HandlerOutcomes ==
    [][Excepting =>
          \E h \in {HandlerFrames} :
              /\ \A error_msg \in Raised :
                     h = Frames(HandlerTrace(error_msg, last_tool_ctx')) =>
                         (Attempted(h) <=>
                              /\ NamesPayloadSize(error_msg)
                              /\ last_tool_ctx'.set
                              /\ last_tool_ctx'.total_raw_size > 10 * 1024)
              /\ \E error_msg \in Raised :
                     h = Frames(HandlerTrace(error_msg, last_tool_ctx'))
              /\ (Attempted(h) /\ summarizer = "text") =>
                     (Of(h, "error") = {} <=>
                          SummaryFrame(last_tool_ctx').size < ceiling)
              /\ summarizer # "text" => Of(h, "error") # {}
              /\ IF Attempted(h) /\ Of(h, "error") = {}
                 THEN /\ RecoveryFrames(h, last_tool_ctx')
                      /\ h[2] = SummaryFrame(last_tool_ctx')
                 ELSE /\ Of(h, "error") = {Len(h)}
                      /\ Of(h, "tool_result") = {}
                      /\ Attempted(h) => Len(h) = 2
                      /\ ~Attempted(h) => Len(h) = 1
              /\ Of(h, "done") = {}
              /\ SubSeq(wire', Len(wire') - Len(h), Len(wire')) =
                     Finally(h)]_vars

\* the runtime raised a payload-size error after a tool result of more than
\* 10 KiB: the stream ends with the summary of the recorded output, its
\* completion, the system message and the sentinel
C38_Witness ==
    /\ pc = "closed"
    /\ outcome = "exception"
    /\ summarizer = "text"
    /\ last_tool_ctx.set
    /\ last_tool_ctx.total_raw_size > 10 * 1024
    /\ Len(wire) >= 5
    /\ RecoveryFrames(SubSeq(wire, Len(wire) - 4, Len(wire) - 1),
                      last_tool_ctx)
    /\ wire[Len(wire)] = SENTINEL

\* the tool calls and the tool results among the first n messages
CallsUpTo(snapshot, n) == {j \in 1..n : snapshot[j].fc.some}
ResultsUpTo(snapshot, n) ==
    {j \in 1..n : snapshot[j].role \in {"tool", "function"}}

\* the call that produced the result at index r: results arrive in the
\* order in which their calls were issued
CallOfResult(snapshot, r) ==
    {c \in CallsUpTo(snapshot, r) :
         Cardinality(CallsUpTo(snapshot, c)) =
             Cardinality(ResultsUpTo(snapshot, r))}

\* the result message carries its own command
Embedded(message) ==
    message.result.kind = "json" /\ Truthy(message.result.command)

\* C39 as claimed: the command a tool_result event has from the queue is
\* the command that was extracted when the call that produced the result
\* was announced.
C39_CommandOfOwnCall ==
    prefix_ok =>
        \A k \in Of(wire, "tool_result") :
            (/\ wire[k].idx \in 1..Len(observed)
             /\ wire[k].command.some
             /\ ~wire[k].summary
             /\ ~Embedded(observed[wire[k].idx]))
                => \E j \in Of(wire, "tool_call") :
                       /\ j < k
                       /\ wire[j].idx \in CallOfResult(observed, wire[k].idx)
                       /\ wire[j].command = wire[k].command

(***************************************************************************)
(* The handler of POST /agent/execute/stream: app.py:131-737.  A request   *)
(* is handled against the replies the IPC bridge gives to the two calls of *)
(* the working-directory lookup.                                           *)
(***************************************************************************)
\* current_directory after app.py:141-170: the output of `pwd` on the
\* connection, stripped, or None when no connection id was given, the
\* connection is not listed, the command gave nothing or any call raised
WorkingDirectory(connection_id, bridge) ==
    LET list_result == call_ash_ipc(bridge.list)
        target == Target(list_result.result.connections, connection_id.v)
        ipc_channel == IF target.v.type \in {"ssh", "telnet", "serial"}
                       THEN Channel(target.v.type)
                       ELSE "ssh-exec-command"
        pwd_result == call_ash_ipc(bridge.exec[ipc_channel])
        output == pwd_result.result.output
        inner == {k \in 1..Len(output) :
                     output[k].ch \notin {" ", NL, "\t", "\r"}}
        lo == CHOOSE k \in inner : \A j \in inner : k <= j
        hi == CHOOSE k \in inner : \A j \in inner : k >= j
    IN  IF ~Truthy(connection_id) THEN None
        ELSE IF list_result.raised \/ ~list_result.result.dict THEN None
        ELSE IF ~target.some THEN None
        ELSE IF pwd_result.raised \/ ~pwd_result.result.dict THEN None
        ELSE IF pwd_result.result.success /\ output # <<>>
        THEN Some(IF inner = {} THEN <<>> ELSE SubSeq(output, lo, hi))
        ELSE None

\* build_system_prompt(*args): the function has the one parameter
\* connection_id; a call with more positional arguments raises TypeError
build_system_prompt(args) ==
    [raised |-> Len(args) > 1,
     connection_id |-> IF Len(args) >= 1 THEN args[1] ELSE None]

\* execute_task_stream(request), up to the response it returns: the
\* StreamingResponse over generate(), or the 500 of an exception that
\* leaves the handler
execute_task_stream ==
    /\ request.phase = "received"
    /\ \E current_directory \in {WorkingDirectory(request.connection_id,
                                                  request.bridge)} :
       \E system_prompt \in {build_system_prompt(<<request.connection_id,
                                                   current_directory>>)} :
           /\ request' =
                  [request EXCEPT
                      !.current_directory = current_directory,
                      !.phase = IF system_prompt.raised THEN "failed"
                                ELSE "streaming",
                      !.status = IF system_prompt.raised THEN 500 ELSE 200]
           /\ pc' = IF system_prompt.raised THEN pc ELSE "running"
    /\ UNCHANGED <<ceiling, previous_response, assistant_content_map,
                   tool_command_queue, last_tool_ctx, wire, scenario, pos,
                   replays, observed, summarizer, summary_calls, outcome,
                   prefix_ok, ck, tool, suspended>>

\* the connection ids a request carries: none, a listed one, another
ConnectionIds == {None, Some(CONN_1), Some(CONN_2)}

InitRequest ==
    /\ pc = "idle"
    /\ ceiling = MAX_CHUNK_SIZE
    /\ previous_response = <<>>
    /\ assistant_content_map = <<>>
    /\ tool_command_queue = <<>>
    /\ last_tool_ctx = NoCtx
    /\ wire = <<>>
    /\ scenario = E2E
    /\ pos = 0
    /\ replays = 0
    /\ observed = <<>>
    /\ summarizer = "text"
    /\ summary_calls = 0
    /\ outcome = "none"
    /\ prefix_ok = TRUE
    /\ ck = NoChunker
    /\ tool = NoTool
    /\ suspended = NoTurn
    /\ \E connection_id \in ConnectionIds, list \in ListReplies,
          exec \in ExecReplies :
           request = [NoRequest EXCEPT
                         !.phase = "received",
                         !.connection_id = connection_id,
                         !.bridge = [list |-> list,
                                     exec |-> [ch \in Channels |-> exec]]]

NextRequest == execute_task_stream

SpecRequest == InitRequest /\ [][NextRequest]_vars

\* C40 as claimed: every request the handler has dealt with, with or
\* without a connection id and whatever became of the working-directory
\* lookup, got past prompt construction and is answered by the stream of
\* generate().
C40_RequestReachesProducer ==
    request.phase \notin {"none", "received"} =>
        /\ request.phase = "streaming"
        /\ request.status = 200
        /\ pc = "running"

====
